---- MODULE Spec2Model ----
(***************************************************************************)
(* Verification model of typescript-invertible-router.                     *)
(*                                                                         *)
(* The library is a set of pure functions over immutable descriptors, so   *)
(* the state machine below draws a descriptor and an input from bounded    *)
(* sets and applies parse / print / parseAll / the adapters / the builders *)
(* to them, one call per step.  Every operator is translated from the      *)
(* TypeScript source; JavaScript strings are TLA+ strings handled          *)
(* character by character, JavaScript objects are functions from keys to   *)
(* tagged values, and a thrown exception is a value of its own.            *)
(***************************************************************************)
EXTENDS Integers, Sequences, FiniteSets, TLC

----------------------------------------------------------------------------
(* Bounds of the model *)

\* longest URL path (in segments) that is enumerated
MaxSegs == 3

----------------------------------------------------------------------------
(* JavaScript values *)

Str(s) == <<"str", s>>
Num(n) == <<"num", n>>
Bool(b) == <<"bool", b>>
Arr(xs) == <<"arr", xs>>
Obj(o) == <<"obj", o>>
Undefined == <<"undefined">>
NaN == <<"nan">>

\* the object literal {}
EmptyObj == [k \in {} |-> Undefined]

\* o[k] of a JavaScript object
Get(o, k) == IF k \in DOMAIN o THEN o[k] ELSE Undefined

\* { [k]: v }
Field(k, v) == [x \in {k} |-> v]

\* Object.assign(target, source): the fields of source win
ObjectAssign(target, source) == source @@ target

RECURSIVE JoinStr(_, _)
\* Array.prototype.join
JoinStr(xs, sep) ==
  IF Len(xs) = 0 THEN ""
  ELSE IF Len(xs) = 1 THEN xs[1]
  ELSE xs[1] \o sep \o JoinStr(Tail(xs), sep)

RECURSIVE JSString(_)
\* String(v), the coercion applied by string concatenation and
\* encodeURIComponent
JSString(v) ==
  CASE v[1] = "str" -> v[2]
    [] v[1] = "num" -> ToString(v[2])
    [] v[1] = "bool" -> IF v[2] THEN "true" ELSE "false"
    [] v[1] = "arr" -> JoinStr([i \in 1..Len(v[2]) |-> JSString(v[2][i])], ",")
    [] v[1] = "obj" -> "[object Object]"
    [] v[1] = "nan" -> "NaN"
    [] OTHER -> "undefined"

\* truthiness of a value
Truthy(v) ==
  CASE v[1] = "str" -> v[2] # ""
    [] v[1] = "num" -> v[2] # 0
    [] v[1] = "bool" -> v[2]
    [] v[1] = "arr" -> TRUE
    [] v[1] = "obj" -> TRUE
    [] OTHER -> FALSE

----------------------------------------------------------------------------
(* Option *)

none == <<"None">>
some(a) == <<"Some", a>>
isSome(o) == o[1] = "Some"
isNone(o) == o[1] = "None"

----------------------------------------------------------------------------
(* Strings and the functions of the JavaScript runtime the library calls *)

\* the outcome of a call: a returned value or a thrown exception
Ok(x) == <<"ok", x>>
Throw(e) == <<"throw", e>>
IsThrow(c) == c[1] = "throw"

\* s.substring(i - 1, j) with 1-based inclusive bounds, clamped to the string
Substr(s, i, j) == SubSeq(s, i, IF j > Len(s) THEN Len(s) ELSE j)

\* s[i - 1], the empty string beyond the end
CharAt(s, i) == IF i >= 1 /\ i <= Len(s) THEN SubSeq(s, i, i) ELSE ""

\* position of the one-character string c in s, 0 when absent
IndexOf(s, c) ==
  IF \E i \in 1..Len(s) : SubSeq(s, i, i) = c
  THEN CHOOSE i \in 1..Len(s) : SubSeq(s, i, i) = c /\ \A j \in 1..(i - 1) : SubSeq(s, j, j) # c
  ELSE 0

\* String.prototype.split with a one-character separator
Split(s, sep) ==
  LET RECURSIVE From(_, _, _)
      From(i, cur, out) ==
        IF i > Len(s) THEN Append(out, cur)
        ELSE IF SubSeq(s, i, i) = sep THEN From(i + 1, "", Append(out, cur))
        ELSE From(i + 1, cur \o SubSeq(s, i, i), out)
  IN  From(1, "", <<>>)

\* x => x !== ''
NonEmpty(x) == x # ""

\* the printable ASCII characters 32..95 and 97..126 in code order
AsciiTable ==
  " !\"#$%&'()*+,-./0123456789:;<=>?@ABCDEFGHIJKLMNOPQRSTUVWXYZ[\\]^_abcdefghijklmnopqrstuvwxyz{|}~"

HexDigits == "0123456789ABCDEFabcdef"

\* value of a hexadecimal digit, -1 for any other character
HexVal(c) ==
  LET HexOfIndex(i) == IF i = 0 THEN -1 ELSE IF i <= 16 THEN i - 1 ELSE i - 7
  IN  IF c = "" THEN -1 ELSE HexOfIndex(IndexOf(HexDigits, c))

RECURSIVE encodeURIComponent(_)
\* every character but the unreserved ones becomes %XX
encodeURIComponent(s) ==
  LET \* character code of a one-character string of the modelled alphabet
      CodeOfIndex(i) == IF i = 0 THEN 0 ELSE IF i <= 64 THEN 31 + i ELSE 32 + i
      CharCode(c) == CodeOfIndex(IndexOf(AsciiTable, c))
      Unreserved(c) ==
        IndexOf("ABCDEFGHIJKLMNOPQRSTUVWXYZabcdefghijklmnopqrstuvwxyz0123456789-_.!~*'()", c) # 0
      PercentByte(n) ==
        "%" \o SubSeq(HexDigits, (n \div 16) + 1, (n \div 16) + 1)
            \o SubSeq(HexDigits, (n % 16) + 1, (n % 16) + 1)
  IN  IF s = "" THEN ""
      ELSE (IF Unreserved(SubSeq(s, 1, 1)) THEN SubSeq(s, 1, 1)
            ELSE PercentByte(CharCode(SubSeq(s, 1, 1))))
           \o encodeURIComponent(SubSeq(s, 2, Len(s)))

\* decodeURIComponent: a '%' that does not start a well-formed escape
\* sequence raises URIError
decodeURIComponent(s) ==
  LET ByteOf(hi, lo) == IF hi >= 0 /\ lo >= 0 THEN 16 * hi + lo ELSE -1
      \* byte written as %XX at position i, -1 when there is no escape there
      EscapeAt(i) ==
        IF CharAt(s, i) = "%" THEN ByteOf(HexVal(CharAt(s, i + 1)), HexVal(CharAt(s, i + 2)))
        ELSE -1
      \* continuation bytes a UTF-8 lead byte announces, -1 if it is none
      Continuations(b) ==
        IF b >= 194 /\ b <= 223 THEN 1
        ELSE IF b >= 224 /\ b <= 239 THEN 2
        ELSE IF b >= 240 /\ b <= 244 THEN 3
        ELSE -1
      IsContinuation(b) == b >= 128 /\ b <= 191
      \* the character of a code; codes outside the alphabet get a name
      CharOfCode(n) ==
        IF n >= 32 /\ n <= 95 THEN SubSeq(AsciiTable, n - 31, n - 31)
        ELSE IF n >= 97 /\ n <= 126 THEN SubSeq(AsciiTable, n - 32, n - 32)
        ELSE "<" \o ToString(n) \o ">"
      RECURSIVE From(_, _)
      RECURSIVE Escape(_, _, _, _)
      From(i, out) ==
        IF i > Len(s) THEN Ok(out)
        ELSE IF SubSeq(s, i, i) # "%" THEN From(i + 1, out \o SubSeq(s, i, i))
        ELSE Escape(i, out, EscapeAt(i), Continuations(EscapeAt(i)))
      \* the escape at i has byte b, which announces n continuation bytes
      Escape(i, out, b, n) ==
        IF b < 0 THEN Throw("URIError")
        ELSE IF b < 128 THEN From(i + 3, out \o CharOfCode(b))
        ELSE IF n < 0 THEN Throw("URIError")
        ELSE IF \A k \in 1..n : IsContinuation(EscapeAt(i + 3 * k))
             THEN From(i + 3 * (n + 1), out \o Substr(s, i, i + 3 * n + 2))
             ELSE Throw("URIError")
  IN  From(1, "")

\* encodeURIComponent(str).replace(re, sub => keepIntact[sub]) with
\* keepIntact = { '%3A': ':', '%2C': ',' }
prettyUriEncode(str) ==
  LET RECURSIVE KeepIntact(_)
      KeepIntact(s) ==
        IF s = "" THEN ""
        ELSE IF Substr(s, 1, 3) = "%3A" THEN ":" \o KeepIntact(SubSeq(s, 4, Len(s)))
        ELSE IF Substr(s, 1, 3) = "%2C" THEN "," \o KeepIntact(SubSeq(s, 4, Len(s)))
        ELSE SubSeq(s, 1, 1) \o KeepIntact(SubSeq(s, 2, Len(s)))
  IN  KeepIntact(encodeURIComponent(str))

\* parseInt(str): leading blanks, a sign, an optional 0x, then the longest
\* prefix of digits; whatever follows the digits is ignored
parseInt(str) ==
  LET RECURSIVE SkipSpaces(_)
      SkipSpaces(s) == IF CharAt(s, 1) = " " THEN SkipSpaces(SubSeq(s, 2, Len(s))) ELSE s
      \* value of character c as a digit of the radix, -1 if it is none
      BelowRadix(v, radix) == IF v < radix THEN v ELSE -1
      RECURSIVE DigitsPrefix(_, _, _, _)
      RECURSIVE DigitsStep(_, _, _, _, _)
      \* <<value, number of digits>> of the longest prefix of digits of s from i
      DigitsPrefix(s, i, radix, acc) ==
        DigitsStep(s, i, radix, acc, BelowRadix(HexVal(CharAt(s, i)), radix))
      DigitsStep(s, i, radix, acc, v) ==
        IF v < 0 THEN acc
        ELSE DigitsPrefix(s, i + 1, radix, <<acc[1] * radix + v, acc[2] + 1>>)
      DigitsValue(neg, digits) ==
        IF digits[2] = 0 THEN NaN
        ELSE Num(IF neg THEN 0 - digits[1] ELSE digits[1])
      IsHexPrefix(u) == Substr(u, 1, 2) = "0x" \/ Substr(u, 1, 2) = "0X"
      ParseRadix(neg, u) ==
        DigitsValue(neg, DigitsPrefix(IF IsHexPrefix(u) THEN Substr(u, 3, Len(u)) ELSE u, 1,
                                      IF IsHexPrefix(u) THEN 16 ELSE 10, <<0, 0>>))
      ParseSigned(t) ==
        ParseRadix(CharAt(t, 1) = "-",
                   IF CharAt(t, 1) = "-" \/ CharAt(t, 1) = "+" THEN Substr(t, 2, Len(t)) ELSE t)
  IN  ParseSigned(SkipSpaces(str))

----------------------------------------------------------------------------
(* Adapters (adapter.ts) *)

printCsv(values) ==
  LET RECURSIVE Escaped(_)
      \* the body of values.map
      Escaped(str) ==
        IF str = "" THEN ""
        ELSE (IF SubSeq(str, 1, 1) = "\\" THEN "\\\\"
              ELSE IF SubSeq(str, 1, 1) = "," THEN "\\,"
              ELSE SubSeq(str, 1, 1))
             \o Escaped(SubSeq(str, 2, Len(str)))
  IN  IF Len(values) = 1 /\ values[1] = "" THEN "\"\""
      ELSE JoinStr([i \in 1..Len(values) |-> Escaped(values[i])], ",")

parseCsv(str) ==
  LET RECURSIVE From(_, _, _, _)
      \* the loop; i is the 1-based position
      From(i, escape, cur, output) ==
        IF i = Len(str) + 1 THEN (IF i # 1 THEN Append(output, cur) ELSE output)
        ELSE IF SubSeq(str, i, i) = "," THEN
               IF escape THEN From(i + 1, FALSE, cur \o ",", output)
               ELSE From(i + 1, escape, "", Append(output, cur))
        ELSE IF SubSeq(str, i, i) = "\\" THEN
               IF escape THEN From(i + 1, FALSE, cur \o "\\", output)
               ELSE From(i + 1, TRUE, cur, output)
        ELSE From(i + 1, escape, cur \o SubSeq(str, i, i), output)
  IN  IF str = "\"\"" THEN <<"">>
      ELSE From(1, FALSE, "", <<>>)

\* deep equality of internal/isequal
isEqual(a, b) == a = b

\* the closures handed to dimap, by name
Closure(f, x) ==
  CASE f = "inc" -> IF x[1] = "num" THEN Num(x[2] + 1) ELSE NaN
    [] f = "dec" -> IF x[1] = "num" THEN Num(x[2] - 1) ELSE NaN
    [] OTHER -> x

\* Option.prototype.map
OptionMap(self, f) == IF isSome(self) THEN some(Closure(f, self[2])) ELSE none

CustomAdapter(fn, arg) == [cls |-> "CustomAdapter", fn |-> fn, arg |-> arg]
NamedAdapter(adapter, name) == [cls |-> "NamedAdapter", adapter |-> adapter, name |-> name]
DefaultAdapter(adapter, default) == [cls |-> "DefaultAdapter", adapter |-> adapter, default |-> default]
DimapAdapter(map, comap, adapter) == [cls |-> "DimapAdapter", map |-> map, comap |-> comap, adapter |-> adapter]

withName(self, name) == NamedAdapter(self, name)
withDefault(self, default) == DefaultAdapter(self, default)
dimap(self, map, comap) == DimapAdapter(map, comap, self)

stringAdapter == CustomAdapter("string", <<>>)
nestringAdapter == CustomAdapter("nestring", <<>>)
natAdapter == CustomAdapter("nat", <<>>)
booleanAdapter == withDefault(CustomAdapter("boolean", <<>>), Bool(FALSE))
array(adapter) == CustomAdapter("array", adapter)
literals(a) == CustomAdapter("literals", a)

RECURSIVE apply(_, _)
RECURSIVE unapply(_, _)

\* self._apply(s) of a CustomAdapter
CustomApply(self, s) ==
  LET \* traverse(arr, f) of option.ts over the already mapped array
      traverse(opts) ==
        IF \A i \in 1..Len(opts) : isSome(opts[i])
        THEN some(Arr([i \in 1..Len(opts) |-> opts[i][2]]))
        ELSE none
      \* the _apply of nat and of int on i = parseInt(str)
      NumberApply(fn, i) ==
        IF i = NaN THEN none
        ELSE IF fn = "nat" /\ i[2] < 0 THEN none
        ELSE some(i)
  IN
  CASE self.fn = "string" -> some(Str(s))
    [] self.fn = "nestring" -> IF s # "" THEN some(Str(s)) ELSE none
    [] self.fn \in {"nat", "int"} -> NumberApply(self.fn, parseInt(s))
    [] self.fn = "boolean" ->
         IF s = "" \/ s = "false" \/ s = "0" \/ s = "off" THEN some(Bool(FALSE)) ELSE some(Bool(TRUE))
    [] self.fn = "array" ->
         traverse([i \in 1..Len(parseCsv(s)) |-> apply(self.arg, parseCsv(s)[i])])
    [] self.fn = "literals" ->
         IF \E i \in 1..Len(self.arg) : self.arg[i] = s THEN some(Str(s)) ELSE none

\* self._unapply(a) of a CustomAdapter; the result is a string, a value
\* returned as it is (x => x) being coerced where the caller concatenates it
CustomUnapply(self, a) ==
  CASE self.fn \in {"string", "nestring", "nat", "int", "literals"} -> JSString(a)
    [] self.fn = "boolean" -> IF Truthy(a) THEN "true" ELSE "false"
    [] self.fn = "array" ->
         IF a[1] = "arr" THEN printCsv([i \in 1..Len(a[2]) |-> unapply(self.arg, a[2][i])])
         ELSE printCsv(<<>>)

apply(self, s) ==
  CASE self.cls = "CustomAdapter" -> CustomApply(self, s)
    [] self.cls = "NamedAdapter" -> apply(self.adapter, s)
    [] self.cls = "DefaultAdapter" -> apply(self.adapter, s)
    [] self.cls = "DimapAdapter" -> OptionMap(apply(self.adapter, s), self.map)

unapply(self, a) ==
  CASE self.cls = "CustomAdapter" -> CustomUnapply(self, a)
    [] self.cls = "NamedAdapter" -> unapply(self.adapter, a)
    [] self.cls = "DefaultAdapter" -> unapply(self.adapter, a)
    [] self.cls = "DimapAdapter" -> unapply(self.adapter, Closure(self.comap, a))

RECURSIVE applyOption(_, _)
\* s is an Option of a string
applyOption(self, s) ==
  CASE self.cls = "CustomAdapter" -> IF isSome(s) THEN CustomApply(self, s[2]) ELSE none
    [] self.cls = "NamedAdapter" -> applyOption(self.adapter, s)
    [] self.cls = "DefaultAdapter" ->
         IF isNone(s) THEN some(self.default) ELSE applyOption(self.adapter, s)
    [] self.cls = "DimapAdapter" -> OptionMap(applyOption(self.adapter, s), self.map)

RECURSIVE unapplyOption(_, _)
unapplyOption(self, a) ==
  CASE self.cls = "CustomAdapter" -> some(CustomUnapply(self, a))
    [] self.cls = "NamedAdapter" -> unapplyOption(self.adapter, a)
    [] self.cls = "DefaultAdapter" ->
         IF isEqual(a, self.default) THEN none ELSE unapplyOption(self.adapter, a)
    [] self.cls = "DimapAdapter" -> unapplyOption(self.adapter, Closure(self.comap, a))

----------------------------------------------------------------------------
(* Descriptors (parser.ts) *)

Params(params) == [cls |-> "Params", params |-> params]
Segment(key, adapter) == [cls |-> "Segment", key |-> key, adapter |-> adapter]
Path(segments) == [cls |-> "Path", segments |-> segments]
Embed(key, parser) == [cls |-> "Embed", key |-> key, parser |-> parser]
Merge(first, second) == [cls |-> "Merge", first |-> first, second |-> second]
OneOf(tags, prefixTrie) == [cls |-> "OneOf", tags |-> tags, prefixTrie |-> prefixTrie]
Custom(parse, print) == [cls |-> "Custom", parse |-> parse, print |-> print]
Extra(payload) == [cls |-> "Extra", payload |-> payload]
Null == [cls |-> "null"]
JSNull == <<"null">>

OnlyFirstMatch == 1
NoOptions == 0

\* a JavaScript object whose key order matters is a sequence of <<key, value>>
Keys(rec) == [i \in 1..Len(rec) |-> rec[i][1]]
HasKey(rec, k) == \E i \in 1..Len(rec) : rec[i][1] = k
Lookup(rec, k) == rec[CHOOSE i \in 1..Len(rec) : rec[i][1] = k][2]
\* rec[k] = v: an existing key keeps its place
SetKey(rec, k, v) ==
  IF HasKey(rec, k) THEN [i \in 1..Len(rec) |-> IF rec[i][1] = k THEN <<k, v>> ELSE rec[i]]
  ELSE Append(rec, <<k, v>>)

\* Array.from(makeIterator(parser)) of internal/parser-iterator.ts
makeIterator(parser) ==
  LET left(p) == IF p.cls = "Merge" THEN p.first ELSE Null
      right(p) == IF p.cls = "Merge" THEN p.second ELSE Null
      RECURSIVE PushLeft(_, _)
      \* while (root !== null) { stack.push(right(root)); stack.push(root); root = left(root); }
      PushLeft(root, stack) ==
        IF root = Null THEN stack
        ELSE PushLeft(left(root), stack \o <<right(root), root>>)
      \* if (!(root instanceof Merge)) yield root, for a root that is not null
      Yield(root, out) == IF root.cls \notin {"Merge", "null"} THEN Append(out, root) ELSE out
      RECURSIVE Loop(_, _, _)
      RECURSIVE Visit(_, _)
      \* one round of the do-while loop; out collects what is yielded
      Loop(root, stack, out) == Visit(PushLeft(root, stack), out)
      \* root = stack.pop() || null, then the swap with the right subtree or the yield
      Visit(stack, out) ==
        IF Len(stack) >= 2 /\ stack[Len(stack)] # Null
           /\ right(stack[Len(stack)]) = stack[Len(stack) - 1]
        THEN Loop(right(stack[Len(stack)]),
                  Append(SubSeq(stack, 1, Len(stack) - 2), stack[Len(stack)]), out)
        ELSE IF Len(stack) = 1 THEN Yield(stack[1], out)
        ELSE Loop(Null, SubSeq(stack, 1, Len(stack) - 1), Yield(stack[Len(stack)], out))
  IN  Loop(parser, <<>>, <<>>)

\* prepareOneOf of internal/prepare-oneof.ts; it switches on parser.tag,
\* a field the classes of parser.ts do not have
prepareOneOf(parser) ==
  LET TagField(p) == IF "tag" \in DOMAIN p THEN p.tag ELSE "undefined"
      RECURSIVE fromArray(_)
      fromArray(parsers) ==
        IF Len(parsers) = 1 THEN parsers[1]
        ELSE Merge(fromArray(SubSeq(parsers, 1, Len(parsers) - 1)), parsers[Len(parsers)])
      joinResult(result) ==
        IF Len(result.paths) # 0 /\ result.rest # Null
        THEN Merge(fromArray(result.paths), result.rest)
        ELSE IF Len(result.paths) # 0 THEN fromArray(result.paths)
        ELSE result.rest
      \* the Merge case of go, first and second being the results of the two sides
      goMerge(p, first, second) ==
        IF first.done
        THEN [paths |-> <<>>, rest |-> Merge(joinResult(first), p.second), done |-> TRUE]
        ELSE [paths |-> first.paths \o second.paths,
              rest |-> IF first.rest # Null /\ second.rest # Null
                       THEN Merge(first.rest, second.rest)
                       ELSE IF first.rest # Null THEN first.rest
                       ELSE second.rest,
              done |-> first.done \/ second.done]
      RECURSIVE go(_)
      go(p) ==
        CASE TagField(p) = "Path" -> [paths |-> <<p>>, rest |-> Null, done |-> FALSE]
          [] TagField(p) = "Segment" -> [paths |-> <<>>, rest |-> p, done |-> TRUE]
          [] TagField(p) = "Merge" -> goMerge(p, go(p.first), go(p.second))
          [] OTHER -> [paths |-> <<>>, rest |-> p, done |-> FALSE]
  IN  joinResult(go(parser))

\* a node of the prefix trie: the parsers filed under '' and the child nodes
TrieNode(bucket, kids) == [bucket |-> bucket, kids |-> kids]
EmptyTrie == TrieNode(<<>>, [k \in {} |-> <<>>])

RECURSIVE TrieInsert(_, _, _)
\* iter[s] = iter[s] || { '': [] } along segs, then iter[''].push(parser)
TrieInsert(node, segs, parser) ==
  IF Len(segs) = 0 THEN TrieNode(Append(node.bucket, parser), node.kids)
  ELSE TrieNode(node.bucket,
                Field(segs[1], TrieInsert(IF segs[1] \in DOMAIN node.kids
                                          THEN node.kids[segs[1]] ELSE EmptyTrie,
                                          Tail(segs), parser)) @@ node.kids)

RECURSIVE LeadingSegments(_, _)
\* the segments of the Path rules before the first rule that is no Path
LeadingSegments(rules, i) ==
  IF i > Len(rules) \/ rules[i].cls # "Path" THEN <<>>
  ELSE rules[i].segments \o LeadingSegments(rules, i + 1)

buildTrie(tags) ==
  LET RECURSIVE From(_, _)
      From(i, trie) ==
        IF i > Len(tags) THEN trie
        ELSE From(i + 1, TrieInsert(trie, LeadingSegments(makeIterator(tags[i][2]), 1),
                                    tags[i][2]))
  IN  From(1, EmptyTrie)

\* rule is an Extra whose payload has a string under 'tag'
IsTagRule(rule) == rule.cls = "Extra" /\ Get(rule.payload, "tag")[1] = "str"

\* the loop of lookupTag over a list of rules: the first tag or null
FirstTag(rules) ==
  IF \E i \in 1..Len(rules) : IsTagRule(rules[i])
  THEN rules[CHOOSE i \in 1..Len(rules) :
               IsTagRule(rules[i]) /\ \A j \in 1..(i - 1) : ~IsTagRule(rules[j])].payload["tag"]
  ELSE JSNull

\* oneOf: the built OneOf, or the Error thrown for an argument without a tag
oneOf(parsers) ==
  LET \* lookupTag: the first tag among the rules of the argument
      lookupTag(parser) == FirstTag(makeIterator(parser))
      RECURSIVE Tags(_, _)
      RECURSIVE TagStep(_, _, _)
      \* the loop over the arguments
      Tags(i, tags) ==
        IF i > Len(parsers) THEN Ok(tags)
        ELSE TagStep(i, tags, lookupTag(parsers[i]))
      \* if (tag !== null) tags[tag] = prepareOneOf(parsers[i]); else throw
      TagStep(i, tags, found) ==
        IF found # JSNull THEN Tags(i + 1, SetKey(tags, found[2], prepareOneOf(parsers[i])))
        ELSE Throw("Error")
      Finish(tags) == IF IsThrow(tags) THEN tags ELSE Ok(OneOf(tags[2], buildTrie(tags[2])))
  IN  Finish(Tags(1, <<>>))

----------------------------------------------------------------------------
(* Parsing (parser.ts) *)

\* prepareState: the ParserState of a URL, or the URIError of decodeURIComponent
prepareState(url) ==
  LET RECURSIVE DecodeAll(_, _, _)
      RECURSIVE DecodeNext(_, _, _, _)
      \* xs.map(decodeURIComponent): the first failure is thrown
      DecodeAll(xs, i, out) ==
        IF i > Len(xs) THEN Ok(out)
        ELSE DecodeNext(xs, i, out, decodeURIComponent(xs[i]))
      DecodeNext(xs, i, out, decoded) ==
        IF IsThrow(decoded) THEN decoded ELSE DecodeAll(xs, i + 1, Append(out, decoded[2]))
      RECURSIVE ReduceQuery(_, _, _)
      RECURSIVE ReducePair(_, _, _, _)
      \* the reduce over the key=value pairs of the query string
      ReduceQuery(pairs, i, acc) ==
        IF i > Len(pairs) THEN Ok(acc)
        ELSE ReducePair(pairs, i, acc, DecodeAll(Split(pairs[i], "="), 1, <<>>))
      \* const [key, value] = kv; acc[key] = value || ''
      ReducePair(pairs, i, acc, kv) ==
        IF IsThrow(kv) THEN kv
        ELSE ReduceQuery(pairs, i + 1,
                         Field(kv[2][1], IF Len(kv[2]) >= 2 THEN kv[2][2] ELSE "") @@ acc)
      \* const [path, query] = url.split('?'), query || ''
      UrlPath(parts) == parts[1]
      UrlQuery(parts) == IF Len(parts) >= 2 THEN parts[2] ELSE ""
      \* class ParserState
      ParserState(segs, query, at) == [segments |-> segs, params |-> query, idx |-> at]
      \* new ParserState(segments, params, 0) unless decoding has thrown
      StateOf(segments, params) ==
        IF IsThrow(segments) THEN segments
        ELSE IF IsThrow(params) THEN params
        ELSE Ok(ParserState(segments[2], params[2], 0))
  IN  StateOf(DecodeAll(SelectSeq(Split(UrlPath(Split(url, "?")), "/"), NonEmpty), 1, <<>>),
              ReduceQuery(SelectSeq(Split(UrlQuery(Split(url, "?")), "&"), NonEmpty), 1,
                          [k \in {} |-> ""]))

\* the default of an adapter whose outermost wrapper is withDefault
getDefaultValueOuter(adapter) ==
  IF adapter.cls = "DefaultAdapter" THEN some(adapter.default) ELSE none

RECURSIVE getDefaultValue(_)
getDefaultValue(adapter) ==
  CASE adapter.cls = "DefaultAdapter" -> some(adapter.default)
    [] adapter.cls = "CustomAdapter" -> none
    [] adapter.cls = "NamedAdapter" -> getDefaultValue(adapter.adapter)
    [] adapter.cls = "DimapAdapter" -> OptionMap(getDefaultValue(adapter.adapter), adapter.map)

\* the name of an adapter whose outermost wrapper is withName
getNameOuter(adapter) ==
  IF adapter.cls = "NamedAdapter" THEN some(adapter.name) ELSE none

RECURSIVE getName(_)
getName(adapter) ==
  CASE adapter.cls = "DefaultAdapter" -> getName(adapter.adapter)
    [] adapter.cls = "CustomAdapter" -> none
    [] adapter.cls = "NamedAdapter" -> some(adapter.name)
    [] adapter.cls = "DimapAdapter" -> getName(adapter.adapter)

\* const paramKey = name instanceof Some ? name.value : key
ParamKey(key, adapter) ==
  LET NameOr(name) == IF isSome(name) THEN name[2] ELSE key
  IN  NameOr(getName(adapter))

\* the functions given to custom(parse, print), by name. 'rest' takes every
\* segment from the cursor on:
\*   s => [[{ rest: s.segments.slice(s.idx).join('/') },
\*          new ParserState(s.segments, s.params, s.segments.length)]]
\* and 'restChunks' prints them back, with a query pair:
\*   a => [a.rest.split('/').filter(x => x !== ''), { all: '1' }]
CustomFn(fn, x) ==
  CASE fn = "rest" ->
         <<<<Field("rest", Str(JoinStr(SubSeq(x.segments, x.idx + 1, Len(x.segments)), "/"))),
             [x EXCEPT !.idx = Len(x.segments)]>>>>
    [] fn = "restChunks" ->
         IF x[1] = "obj" /\ "rest" \in DOMAIN x[2] /\ x[2]["rest"][1] = "str"
         THEN Ok([segments |-> SelectSeq(Split(x[2]["rest"][2], "/"), NonEmpty),
                  params |-> <<<<"all", "1">>>>])
         ELSE Throw("TypeError")

\* a rule that accepts at every cursor and leaves the cursor where it is
parseSingleInPlace(parser, output, state) == <<TRUE, output, state>>

\* parseSingle: <<matched, output, state>>
parseSingle(parser, output, state) ==
  LET \* params.hasOwnProperty(paramKey) ? some(params[paramKey]) : none
      ParamOption(paramKey) ==
        IF paramKey \in DOMAIN state.params THEN some(state.params[paramKey]) ELSE none
      \* OptionBase.prototype.or
      OptionOr(self, that) == IF isNone(self) THEN that ELSE self
      \* defaultValue instanceof Some ? defaultValue : none
      SomeOrNone(defaultValue) == IF isSome(defaultValue) THEN defaultValue ELSE none
      RECURSIVE ParseParams(_, _, _)
      RECURSIVE ParamValue(_, _, _, _)
      \* the loop over the keys of a Params rule
      ParseParams(ps, i, out) ==
        IF i > Len(ps) THEN <<TRUE, out, state>>
        ELSE ParamValue(ps, i, out,
               OptionOr(applyOption(ps[i][2], ParamOption(ParamKey(ps[i][1], ps[i][2]))),
                        SomeOrNone(getDefaultValue(ps[i][2]))))
      \* if (maybeValue instanceof None) return false; output[key] = maybeValue.value
      ParamValue(ps, i, out, maybeValue) ==
        IF isNone(maybeValue) THEN <<FALSE, out, state>>
        ELSE ParseParams(ps, i + 1, Field(ps[i][1], maybeValue[2]) @@ out)
      \* the Segment case once the adapter has been applied
      SegmentValue(result) ==
        IF isNone(result) THEN <<FALSE, output, state>>
        ELSE <<TRUE, Field(parser.key, result[2]) @@ output,
               [state EXCEPT !.idx = state.idx + 1]>>
  IN
  CASE parser.cls = "Params" -> ParseParams(parser.params, 1, output)
    [] parser.cls = "Segment" ->
         IF state.idx = Len(state.segments) THEN <<FALSE, output, state>>
         ELSE SegmentValue(apply(parser.adapter, state.segments[state.idx + 1]))
    [] parser.cls = "Path" ->
         IF \A i \in 1..Len(parser.segments) :
              /\ state.idx + i <= Len(state.segments)
              /\ state.segments[state.idx + i] = parser.segments[i]
         THEN <<TRUE, output, [state EXCEPT !.idx = state.idx + Len(parser.segments)]>>
         ELSE <<FALSE, output, state>>
    [] parser.cls = "Extra" -> <<TRUE, ObjectAssign(output, parser.payload), state>>

RECURSIVE TrieParents(_, _, _, _)
\* the do-while descent of the OneOf case: the nodes visited, root first;
\* segments[idx] beyond the end is undefined
TrieParents(iter, segments, idx, parents) ==
  LET SegmentAt(i) == IF i < Len(segments) THEN segments[i + 1] ELSE "undefined"
  IN  IF SegmentAt(idx) \notin DOMAIN iter.kids THEN Append(parents, iter)
      ELSE TrieParents(iter.kids[SegmentAt(idx)], segments, idx + 1, Append(parents, iter))

\* the parsers of parents[i][''] for i from the deepest node to the root
FlatBuckets(parents) ==
  LET RECURSIVE From(_)
      From(i) == IF i < 1 THEN <<>> ELSE parents[i].bucket \o From(i - 1)
  IN  From(Len(parents))

\* state.idx === state.segments.length
IsFull(pair) == pair[2].idx = Len(pair[2].segments)

\* the first pair, whatever it consumed
FirstAny(pairs) == IF Len(pairs) # 0 THEN <<pairs[1]>> ELSE <<>>

\* what the loops of the OneOf case return under OnlyFirstMatch: the first
\* pair whose state consumed every segment, as a list
FirstFull(pairs) ==
  IF \E i \in 1..Len(pairs) : IsFull(pairs[i])
  THEN <<pairs[CHOOSE i \in 1..Len(pairs) : IsFull(pairs[i]) /\ \A j \in 1..(i - 1) : ~IsFull(pairs[j])]>>
  ELSE <<>>

RECURSIVE doParse(_, _, _)
RECURSIVE parseMultiple(_, _, _, _)

\* the result of the embedded descriptor assigned to the fields around it
embedOutputFlat(key, output, prevOutput) ==
  [i \in 1..Len(output) |-> <<ObjectAssign(output[i][1], prevOutput), output[i][2]>>]

\* the loop of the Embed case:
\* output[i][0] = Object.assign({ [parser._key]: output[i][0] }, prevOutput)
embedOutput(key, output, prevOutput) ==
  [i \in 1..Len(output) |->
     <<ObjectAssign(Field(key, Obj(output[i][1])), prevOutput), output[i][2]>>]

parseMultiple(parser, prevOutput, prevState, options) ==
  LET \* Object.assign(route, prevOutput) for every pair
      AssignAll(pairs) ==
        [j \in 1..Len(pairs) |-> <<ObjectAssign(pairs[j][1], prevOutput), pairs[j][2]>>]
      RECURSIVE OneOfPairs(_, _)
      \* the pairs of doParse(rules, prevState, options) for each parser of the
      \* visited buckets, in the order the loops go through them
      OneOfPairs(alts, i) ==
        IF i > Len(alts) THEN <<>>
        ELSE AssignAll(doParse(alts[i], prevState, options)) \o OneOfPairs(alts, i + 1)
      \* the return inside the loops under OnlyFirstMatch, else output
      OneOfResult(pairs) == IF options % 2 = 1 THEN FirstFull(pairs) ELSE pairs
  IN
  CASE parser.cls = "OneOf" ->
         OneOfResult(OneOfPairs(FlatBuckets(TrieParents(parser.prefixTrie, prevState.segments,
                                                        prevState.idx, <<>>)), 1))
    [] parser.cls = "Custom" -> OneOfResult(AssignAll(CustomFn(parser.parse, prevState)))
    [] parser.cls = "Embed" ->
         embedOutput(parser.key, doParse(parser.parser, prevState, options), prevOutput)
    [] parser.cls = "Merge" -> <<>>

doParse(parser, state, options) ==
  LET IsSingle(p) == p.cls \in {"Params", "Segment", "Path", "Extra"}
      IsMatched(r) == r[1]
      \* the results a single rule keeps
      Kept(rs) == [i \in 1..Len(SelectSeq(rs, IsMatched)) |->
                     <<SelectSeq(rs, IsMatched)[i][2], SelectSeq(rs, IsMatched)[i][3]>>]
      RECURSIVE Replacements(_, _, _)
      \* results.splice(i, 1, ...replacements) for every result
      Replacements(p, results, i) ==
        IF i > Len(results) THEN <<>>
        ELSE parseMultiple(p, results[i][1], results[i][2], options)
             \o Replacements(p, results, i + 1)
      RECURSIVE Rules(_, _, _)
      RECURSIVE RulesNext(_, _, _)
      \* the for loop from rule k on
      Rules(rules, k, results) ==
        IF k > Len(rules) THEN results
        ELSE RulesNext(rules, k,
               IF IsSingle(rules[k])
               THEN Kept([i \in 1..Len(results) |->
                            parseSingle(rules[k], results[i][1], results[i][2])])
               ELSE Replacements(rules[k], results, 1))
      \* if (results.length === 0) return results
      RulesNext(rules, k, results) ==
        IF Len(results) = 0 THEN results ELSE Rules(rules, k + 1, results)
  IN  Rules(makeIterator(parser), 1, <<<<EmptyObj, state>>>>)

\* ParserBase.prototype.parse: the route, null, or what prepareState threw
parse(self, url) ==
  LET \* results.length ? results[0][0] : null
      FirstOrNull(results) == Ok(IF Len(results) # 0 THEN Obj(results[1][1]) ELSE JSNull)
      FromState(state) ==
        IF IsThrow(state) THEN state
        ELSE FirstOrNull(doParse(self, state[2], OnlyFirstMatch))
  IN  FromState(prepareState(url))

\* a sort by the same compareFn that places a pair before the pairs it ties with
SortByIdxTiesFirst(results) ==
  LET RECURSIVE Insert(_, _)
      Insert(sorted, x) ==
        IF Len(sorted) = 0 THEN <<x>>
        ELSE IF x[2].idx - sorted[1][2].idx >= 0 THEN <<x>> \o sorted
        ELSE <<sorted[1]>> \o Insert(Tail(sorted), x)
      RECURSIVE From(_, _)
      From(i, sorted) ==
        IF i > Len(results) THEN sorted ELSE From(i + 1, Insert(sorted, results[i]))
  IN  From(1, <<>>)

\* results.sort(compareFn) with compareFn(a, b) = b[1].idx - a[1].idx
SortByIdx(results) ==
  LET RECURSIVE Insert(_, _)
      \* place pair x behind every element that does not compare greater
      Insert(sorted, x) ==
        IF Len(sorted) = 0 THEN <<x>>
        ELSE IF x[2].idx - sorted[1][2].idx > 0 THEN <<x>> \o sorted
        ELSE <<sorted[1]>> \o Insert(Tail(sorted), x)
      RECURSIVE From(_, _)
      From(i, sorted) ==
        IF i > Len(results) THEN sorted ELSE From(i + 1, Insert(sorted, results[i]))
  IN  From(1, <<>>)

RECURSIVE SkipSameIdx(_, _, _, _)
\* the loop of parseAll over the sorted results
SkipSameIdx(results, i, idx, output) ==
  IF i > Len(results) THEN output
  ELSE IF idx = results[i][2].idx THEN SkipSameIdx(results, i + 1, idx, output)
  ELSE SkipSameIdx(results, i + 1, results[i][2].idx, Append(output, results[i]))

\* the loop of parseAll over the results as doParse yields them
parseAllUnsorted(results) == SkipSameIdx(results, 1, -1, <<>>)

\* the pairs parseAll keeps of the results of doParse
parseAllPairs(results) == SkipSameIdx(SortByIdx(results), 1, -1, <<>>)

\* ParserBase.prototype.parseAll: the routes, or what prepareState threw
parseAll(self, url) ==
  LET RoutesOf(pairs) == Ok(Arr([i \in 1..Len(pairs) |-> Obj(pairs[i][1])]))
      FromState(state) ==
        IF IsThrow(state) THEN state
        ELSE RoutesOf(parseAllPairs(doParse(self, state[2], NoOptions)))
  IN  FromState(prepareState(url))

----------------------------------------------------------------------------
(* Printing (parser.ts) *)

UrlChunks(segments, params) == [segments |-> segments, params |-> params]

RECURSIVE printHelper(_, _, _)
\* route is a JavaScript value; reading a field of one that is no object
\* is a TypeError, a tag that is no key of the OneOf an Error
printHelper(parser, route, output) ==
  LET \* if (maybeValue.isSome()) params[paramKey] = maybeValue.value
      SetParam(out, paramKey, maybeValue) ==
        IF isSome(maybeValue)
        THEN UrlChunks(out.segments, SetKey(out.params, paramKey, maybeValue[2]))
        ELSE out
      \* defaultValue instanceof Some &&
      \* (!(key in route) || isEqual(route[key], defaultValue.value))
      IsDefault(defaultValue, key) ==
        isSome(defaultValue)
        /\ (key \notin DOMAIN route[2] \/ isEqual(route[2][key], defaultValue[2]))
      RECURSIVE PrintParams(_, _, _)
      \* the loop over the keys of a Params rule
      PrintParams(ps, i, out) ==
        IF i > Len(ps) THEN out
        ELSE IF IsDefault(getDefaultValue(ps[i][2]), ps[i][1])
        THEN PrintParams(ps, i + 1, out)
        ELSE PrintParams(ps, i + 1,
               SetParam(out, ParamKey(ps[i][1], ps[i][2]),
                        unapplyOption(ps[i][2], Get(route[2], ps[i][1]))))
      \* key in route ? route[key]
      \*   : defaultValue instanceof Some ? defaultValue.value : undefined
      SegmentInput(key, defaultValue) ==
        IF key \in DOMAIN route[2] THEN route[2][key]
        ELSE IF isSome(defaultValue) THEN defaultValue[2]
        ELSE Undefined
      \* x.forEach(...): a TypeError unless x is an array
      ForEach(x, xs, out) ==
        IF x[1] = "arr" THEN Ok(UrlChunks(out.segments \o xs, out.params)) ELSE Throw("TypeError")
      \* for (const chunks of parser._print(route)): the loop goes over the two
      \* members of the pair print returned, and its first round has the array of
      \* segments for chunks, so that chunks[0] is a segment or undefined
      CustomChunks(pair) ==
        IF IsThrow(pair) THEN pair
        ELSE ForEach(IF Len(pair[2].segments) # 0 THEN Str(pair[2].segments[1]) ELSE Undefined,
                     <<>>, output)
      \* printHelper(parser._second, route, output) after the first side
      Second(out) == IF IsThrow(out) THEN out ELSE printHelper(parser.second, route, out[2])
  IN
  CASE parser.cls = "Params" ->
         IF Len(parser.params) = 0 THEN Ok(output)
         ELSE IF route[1] # "obj" THEN Throw("TypeError")
         ELSE Ok(PrintParams(parser.params, 1, output))
    [] parser.cls = "Segment" ->
         IF route[1] # "obj" THEN Throw("TypeError")
         ELSE Ok(UrlChunks(
                Append(output.segments,
                       unapply(parser.adapter,
                               SegmentInput(parser.key, getDefaultValue(parser.adapter)))),
                output.params))
    [] parser.cls = "Path" -> Ok(UrlChunks(output.segments \o parser.segments, output.params))
    [] parser.cls = "OneOf" ->
         IF route[1] # "obj" THEN Throw("TypeError")
         ELSE IF HasKey(parser.tags, JSString(Get(route[2], "tag")))
         THEN printHelper(Lookup(parser.tags, JSString(Get(route[2], "tag"))), route, output)
         ELSE Throw("Error")
    [] parser.cls = "Extra" -> Ok(output)
    [] parser.cls = "Custom" -> CustomChunks(CustomFn(parser.print, route))
    [] parser.cls = "Embed" ->
         IF route[1] # "obj" THEN Throw("TypeError")
         ELSE printHelper(parser.parser, Get(route[2], parser.key), output)
    [] parser.cls = "Merge" -> Second(printHelper(parser.first, route, output))

doPrint(parser, route) == printHelper(parser, route, UrlChunks(<<>>, <<>>))

\* a URL that always has the '?' and writes every pair as key=value
assembleChunksPlain(chunks) ==
  JoinStr([i \in 1..Len(chunks.segments) |-> prettyUriEncode(chunks.segments[i])], "/")
    \o "?"
    \o JoinStr([i \in 1..Len(chunks.params) |->
                  prettyUriEncode(chunks.params[i][1]) \o "="
                    \o prettyUriEncode(chunks.params[i][2])], "&")

assembleChunks(chunks) ==
  LET \* k + (v ? '=' + v : '')
      QueryPair(k, v) == k \o (IF v # "" THEN "=" \o v ELSE "")
      \* segments + (query ? '?' + query : '')
      WithQuery(segments, query) == segments \o (IF query # "" THEN "?" \o query ELSE "")
  IN  WithQuery(
        JoinStr([i \in 1..Len(chunks.segments) |-> prettyUriEncode(chunks.segments[i])], "/"),
        JoinStr([i \in 1..Len(chunks.params) |->
                   QueryPair(prettyUriEncode(chunks.params[i][1]),
                             prettyUriEncode(chunks.params[i][2]))],
                "&"))

\* ParserBase.prototype.print: the URL, or what doPrint threw
print(self, route) ==
  LET FromChunks(chunks) == IF IsThrow(chunks) THEN chunks ELSE Ok(assembleChunks(chunks[2]))
  IN  FromChunks(doPrint(self, route))

----------------------------------------------------------------------------
(* Builders (parser.ts): every method wraps the receiver in a new Merge *)

RECURSIVE toOutput(_, _)
\* toOutput: input is a JavaScript value; { ...input } of undefined is {},
\* 'key in input' of a value that is no object a TypeError, and a tag that is
\* no key of the OneOf leads to absurd()
toOutput(parser, input) ==
  LET \* { ...input }
      Spread(v) == IF v[1] = "obj" THEN v[2] ELSE EmptyObj
      RECURSIVE FillParams(_, _, _)
      \* if (!(k in output)) { ... if (maybeDefault.isSome()) output[k] = maybeDefault.value }
      FillParams(ps, i, out) ==
        IF i > Len(ps) THEN Ok(Obj(out))
        ELSE IF ps[i][1] \notin DOMAIN out /\ isSome(getDefaultValue(ps[i][2]))
        THEN FillParams(ps, i + 1, Field(ps[i][1], getDefaultValue(ps[i][2])[2]) @@ out)
        ELSE FillParams(ps, i + 1, out)
      \* { ...input, [parser._key]: toOutput(parser._parser, input[parser._key]) }
      Embedded(inner) ==
        IF IsThrow(inner) THEN inner
        ELSE Ok(Obj(Field(parser.key, inner[2]) @@ Spread(input)))
      \* { ...toOutput(parser._first, input), ...toOutput(parser._second, input) }
      Merged(first, second) ==
        IF IsThrow(first) THEN first
        ELSE IF IsThrow(second) THEN second
        ELSE Ok(Obj(Spread(second[2]) @@ Spread(first[2])))
  IN
  CASE parser.cls = "Params" -> FillParams(parser.params, 1, Spread(input))
    [] parser.cls = "Segment" ->
         \* the field gets the Option that getDefaultValue returns
         IF input[1] # "obj" THEN Throw("TypeError")
         ELSE IF parser.key \in DOMAIN input[2] THEN Ok(input)
         ELSE Ok(Obj(Field(parser.key, getDefaultValue(parser.adapter)) @@ input[2]))
    [] parser.cls = "Path" -> Ok(input)
    [] parser.cls = "Embed" ->
         IF input[1] # "obj" THEN Throw("TypeError")
         ELSE Embedded(toOutput(parser.parser, Get(input[2], parser.key)))
    [] parser.cls = "OneOf" ->
         IF input[1] # "obj" THEN Throw("TypeError")
         ELSE IF HasKey(parser.tags, JSString(Get(input[2], "tag")))
         THEN toOutput(Lookup(parser.tags, JSString(Get(input[2], "tag"))), input)
         ELSE Throw("Error")
    [] parser.cls = "Extra" -> Ok(Obj(parser.payload @@ Spread(input)))
    [] parser.cls = "Custom" -> Ok(input)
    [] parser.cls = "Merge" ->
         Merged(toOutput(parser.first, input), toOutput(parser.second, input))

\* path.split('/').filter(x => !!x)
PathSegments(str) == SelectSeq(Split(str, "/"), NonEmpty)

path(self, str) == Merge(self, Path(PathSegments(str)))
segment(self, key, adapter) == Merge(self, Segment(key, adapter))
params(self, ps) == Merge(self, Params(ps))
merge(self, that) == Merge(self, that)
embed(self, key, that) == Merge(self, Embed(key, that))
extra(self, payload) == Merge(self, Extra(payload))

\* the functions exported beside the methods
tag(t) == Extra(Field("tag", Str(t)))
rPath(segmentsStr) == Path(PathSegments(segmentsStr))

----------------------------------------------------------------------------
(* The revision of parser.ts whose Parser holds an array `rules`: a builder
   pushes a rule to the array of the receiver and returns the receiver. The
   operators give the array after the call. *)

\* { tag: 'Embed', key, rules: that.rules.slice() }
EmbedRules(key, rules) == [cls |-> "Embed", key |-> key, rules |-> rules]

\* this.rules.push(rule) of path, segment, params, embed and extra
RulesPush(rules, rule) == Append(rules, rule)

\* tag(t): new Parser([{ tag: 'Extra', payload: { tag } }])
RulesTag(t) == <<Extra(Field("tag", Str(t)))>>

\* rules.slice().sort(compareFn): Path and Segment rules first, order kept
RulesSort(rules) ==
  LET IsPathOrSegment(rule) == rule.cls \in {"Path", "Segment"}
      IsOtherRule(rule) == rule.cls \notin {"Path", "Segment"}
  IN  SelectSeq(rules, IsPathOrSegment) \o SelectSeq(rules, IsOtherRule)

RulesBuildTrie(tags) ==
  LET RECURSIVE From(_, _)
      From(i, trie) ==
        IF i > Len(tags) THEN trie
        ELSE From(i + 1, TrieInsert(trie, LeadingSegments(tags[i][2], 1), tags[i][2]))
  IN  From(1, EmptyTrie)

\* oneOf of that revision, on the rule arrays of its arguments
RulesOneOf(parsers) ==
  LET RECURSIVE Tags(_, _)
      RECURSIVE TagStep(_, _, _)
      Tags(i, tags) ==
        IF i > Len(parsers) THEN Ok(tags)
        ELSE TagStep(i, tags, FirstTag(parsers[i]))
      \* if (tag) tags[tag] = parsers[i].rules.slice().sort(compareFn); else throw
      TagStep(i, tags, found) ==
        IF Truthy(found) THEN Tags(i + 1, SetKey(tags, found[2], RulesSort(parsers[i])))
        ELSE Throw("Error")
      Finish(tags) ==
        IF IsThrow(tags) THEN tags ELSE Ok(<<OneOf(tags[2], RulesBuildTrie(tags[2]))>>)
  IN  Finish(Tags(1, <<>>))

RECURSIVE RulesDoParse(_, _, _)
\* doParse of that revision, on an array of rules
RulesDoParse(rules, state, options) ==
  LET \* parseSingle: <<matched, output, state>>; the Params case applies the
      \* adapters as parseSingle does
      ParseSingle(rule, output, st) ==
        LET SegmentValue(result) ==
              IF isNone(result) THEN <<FALSE, output, st>>
              ELSE <<TRUE, Field(rule.key, result[2]) @@ output, [st EXCEPT !.idx = st.idx + 1]>>
            \* segments[idx + i] !== rule.segments[i]; beyond the end it is undefined
            Differs(i) ==
              IF st.idx + i > Len(st.segments) THEN TRUE
              ELSE st.segments[st.idx + i] # rule.segments[i]
        IN  CASE rule.cls = "Params" -> parseSingle(rule, output, st)
              [] rule.cls = "Segment" ->
                   IF st.idx = Len(st.segments) THEN <<FALSE, output, st>>
                   ELSE SegmentValue(apply(rule.adapter, st.segments[st.idx + 1]))
              [] rule.cls = "Path" ->
                   IF \E i \in 1..Len(rule.segments) : Differs(i) THEN <<FALSE, output, st>>
                   ELSE <<TRUE, output, [st EXCEPT !.idx = st.idx + Len(rule.segments)]>>
              [] rule.cls = "Extra" -> <<TRUE, ObjectAssign(output, rule.payload), st>>
      \* parseMultiple
      ParseMultiple(rule, prevOutput, prevState) ==
        LET AssignAll(pairs) ==
              [j \in 1..Len(pairs) |-> <<ObjectAssign(pairs[j][1], prevOutput), pairs[j][2]>>]
            RECURSIVE OneOfPairs(_, _)
            OneOfPairs(alts, i) ==
              IF i > Len(alts) THEN <<>>
              ELSE AssignAll(RulesDoParse(alts[i], prevState, options))
                   \o OneOfPairs(alts, i + 1)
            OneOfResult(pairs) == IF options % 2 = 1 THEN FirstFull(pairs) ELSE pairs
            EmbedAll(output) ==
              [i \in 1..Len(output) |->
                 <<ObjectAssign(Field(rule.key, Obj(output[i][1])), prevOutput), output[i][2]>>]
        IN  CASE rule.cls = "OneOf" ->
                   OneOfResult(OneOfPairs(FlatBuckets(TrieParents(rule.prefixTrie,
                                            prevState.segments, prevState.idx, <<>>)), 1))
              [] rule.cls = "Embed" -> EmbedAll(RulesDoParse(rule.rules, prevState, options))
      IsSingle(rule) == rule.cls \in {"Params", "Segment", "Path", "Extra"}
      IsMatched(r) == r[1]
      Kept(rs) == [i \in 1..Len(SelectSeq(rs, IsMatched)) |->
                     <<SelectSeq(rs, IsMatched)[i][2], SelectSeq(rs, IsMatched)[i][3]>>]
      RECURSIVE Replacements(_, _, _)
      Replacements(rule, results, i) ==
        IF i > Len(results) THEN <<>>
        ELSE ParseMultiple(rule, results[i][1], results[i][2])
             \o Replacements(rule, results, i + 1)
      RECURSIVE From(_, _)
      RECURSIVE Continue(_, _)
      \* the for loop from rule k on
      From(k, results) ==
        IF k > Len(rules) THEN results
        ELSE Continue(k,
               IF IsSingle(rules[k])
               THEN Kept([i \in 1..Len(results) |->
                            ParseSingle(rules[k], results[i][1], results[i][2])])
               ELSE Replacements(rules[k], results, 1))
      \* if (results.length === 0) return results
      Continue(k, results) == IF Len(results) = 0 THEN results ELSE From(k + 1, results)
  IN  \* if (rules.length === 0) return []
      IF Len(rules) = 0 THEN <<>> ELSE From(1, <<<<EmptyObj, state>>>>)

\* doPrint of that revision: printHelper on every rule of the array in turn,
\* as <<segments, params>> chunks or the exception thrown
RulesDoPrint(rules, route) ==
  LET RECURSIVE PrintParams(_, _, _, _)
      \* adapter = item.tag === 'NamedAdapter' ? item.adapter : item and
      \* paramKey = item.tag === 'NamedAdapter' ? item.name : key
      PrintParams(ps, r, i, out) ==
        LET Inner(item) == IF item.cls = "NamedAdapter" THEN item.adapter ELSE item
            ParamKeyOf(item, key) == IF item.cls = "NamedAdapter" THEN item.name ELSE key
            Set(maybeValue, paramKey) ==
              IF isSome(maybeValue)
              THEN UrlChunks(out.segments, SetKey(out.params, paramKey, maybeValue[2]))
              ELSE out
        IN  IF i > Len(ps) THEN out
            ELSE PrintParams(ps, r, i + 1,
                   Set(unapplyOption(Inner(ps[i][2]), Get(r[2], ps[i][1])),
                       ParamKeyOf(ps[i][2], ps[i][1])))
      RECURSIVE Onto(_, _, _, _)
      RECURSIVE printHelperOf(_, _, _)
      \* for (const rule of rules) printHelper(rule, route, output)
      Onto(rs, r, i, out) ==
        IF i > Len(rs) \/ IsThrow(out) THEN out
        ELSE Onto(rs, r, i + 1, printHelperOf(rs[i], r, out[2]))
      printHelperOf(rule, r, out) ==
        CASE rule.cls = "Params" ->
               IF Len(rule.params) = 0 THEN Ok(out)
               ELSE IF r[1] # "obj" THEN Throw("TypeError")
               ELSE Ok(PrintParams(rule.params, r, 1, out))
          [] rule.cls = "Segment" ->
               IF r[1] # "obj" THEN Throw("TypeError")
               ELSE Ok(UrlChunks(Append(out.segments,
                                        unapply(rule.adapter, Get(r[2], rule.key))),
                                 out.params))
          [] rule.cls = "Path" -> Ok(UrlChunks(out.segments \o rule.segments, out.params))
          [] rule.cls = "OneOf" ->
               \* for (const nestedRules of rule.tags[route['tag']])
               IF r[1] # "obj" THEN Throw("TypeError")
               ELSE IF HasKey(rule.tags, JSString(Get(r[2], "tag")))
               THEN Onto(Lookup(rule.tags, JSString(Get(r[2], "tag"))), r, 1, Ok(out))
               ELSE Throw("TypeError")
          [] rule.cls = "Extra" -> Ok(out)
          [] rule.cls = "Custom" ->
               \* for (const chunks of rule.print(route)) chunks[0].forEach(...): chunks
               \* is the array of segments, chunks[0] a segment or undefined
               IF IsThrow(CustomFn(rule.print, r)) THEN CustomFn(rule.print, r)
               ELSE Throw("TypeError")
          [] rule.cls = "Embed" ->
               IF r[1] # "obj" THEN Throw("TypeError")
               ELSE Onto(rule.rules, Get(r[2], rule.key), 1, Ok(out))
  IN  Onto(rules, route, 1, Ok(UrlChunks(<<>>, <<>>)))

----------------------------------------------------------------------------
(* The revision of parser.ts whose Parser holds an array `methods`: a builder
   returns a new Parser of this.methods.concat(...). The operators give the
   methods of the new Parser. *)

\* path: the segments are stored encoded
MethodsPath(methods, str) ==
  Append(methods, Path([i \in 1..Len(PathSegments(str)) |-> prettyUriEncode(PathSegments(str)[i])]))

\* this.methods.concat(method) of segment, params, embed and extra
MethodsAdd(methods, method) == Append(methods, method)

\* tag(t): new Parser([{ tag: 'Extra', payload: { tag } }])
MethodsTag(t) == <<Extra(Field("tag", Str(t)))>>

\* oneOf of that revision, on the method arrays of its arguments
MethodsOneOf(parsers) ==
  LET RECURSIVE Tags(_, _)
      RECURSIVE TagStep(_, _, _)
      Tags(i, description) ==
        IF i > Len(parsers) THEN Ok(<<[cls |-> "OneOf", description |-> description]>>)
        ELSE TagStep(i, description, FirstTag(parsers[i]))
      \* if (tag) description[tag] = parsers[i]; else throw
      TagStep(i, description, found) ==
        IF Truthy(found) THEN Tags(i + 1, SetKey(description, found[2], parsers[i]))
        ELSE Throw("Error")
  IN  Tags(1, <<>>)

----------------------------------------------------------------------------
(* The descriptors and inputs the model draws from *)

\* oneOf of descriptors that all carry a tag
OneOfOk(parsers) == oneOf(parsers)[2]

\* a descriptor with the alphabet of the URLs and the routes it is run on;
\* alts lists the alternatives when the descriptor is a oneOf
Entry(parser, alts, segs, queries, routes) ==
  [parser |-> parser, alts |-> alts, segs |-> segs, queries |-> queries, routes |-> routes]

OneOfEntry(alts, segs, queries, routes) == Entry(OneOfOk(alts), alts, segs, queries, routes)

Descriptors ==
  LET Home == path(tag("Home"), "/")
      Shop == path(tag("Shop"), "/shop")
      Item == segment(path(tag("Item"), "/shop/item"), "id", nestringAdapter)
      ShopP == extra(rPath("/shop"), Field("tag", Str("Shop")))
      ItemP == segment(extra(rPath("/shop/item"), Field("tag", Str("Item"))), "id", nestringAdapter)
      AnyP == segment(tag("Any"), "slug", nestringAdapter)
      AltA == path(tag("A"), "/a")
      AltB == path(tag("B"), "/b")
      Category ==
        params(segment(path(tag("Category"), "/category"), "slug", nestringAdapter),
               <<<<"page", withDefault(natAdapter, Num(1))>>>>)
      ItemR == segment(path(tag("Item"), "/item"), "id", nestringAdapter)
      LitAlt == segment(path(tag("Lit"), "/n"), "n", literals(<<"42">>))
      NatAlt == segment(path(tag("Nat"), "/n"), "n", natAdapter)
      \* the default sits outermost, under withName and under dimap
      DefaultFields ==
        << <<"page", withDefault(natAdapter, Num(1))>>,
           <<"snake", withName(withDefault(natAdapter, Num(1)), "sn")>>,
           <<"next", dimap(withDefault(natAdapter, Num(1)), "inc", "dec")>> >>
      DefaultQueries ==
        { JoinStr(SelectSeq(<<a, b, c>>, NonEmpty), "&") :
            a \in {"", "page=1", "page=3"}, b \in {"", "sn=1", "sn=2"},
            c \in {"", "next=1", "next=4"} }
      DefaultRoutes ==
        { Obj(a @@ b @@ c) :
            a \in {EmptyObj, Field("page", Num(1)), Field("page", Num(3))},
            b \in {EmptyObj, Field("snake", Num(1)), Field("snake", Num(2))},
            c \in {EmptyObj, Field("next", Num(2)), Field("next", Num(5))} }
      \* withName outermost over dimap, under withDefault, under dimap
      NamedFields ==
        << <<"a", withName(dimap(natAdapter, "inc", "dec"), "x")>>,
           <<"b", withDefault(withName(natAdapter, "y"), Num(1))>>,
           <<"c", dimap(withName(withDefault(natAdapter, Num(1)), "z"), "inc", "dec")>> >>
      NamedQueries ==
        { JoinStr(SelectSeq(<<x, a, y, z>>, NonEmpty), "&") :
            x \in {"", "x=1", "x=3"}, a \in {"", "a=5"}, y \in {"", "y=4", "b=6"},
            z \in {"", "z=2", "c=7"} }
      NamedRoutes ==
        { Obj(a @@ b @@ c) :
            a \in {Field("a", Num(2)), Field("a", Num(4))},
            b \in {EmptyObj, Field("b", Num(1)), Field("b", Num(4))},
            c \in {EmptyObj, Field("c", Num(2)), Field("c", Num(3))} }
      QueryFields ==
        << <<"a", withDefault(stringAdapter, Str("none"))>>, <<"flag", booleanAdapter>> >>
      QueryQueries ==
        { JoinStr(SelectSeq(<<a, f>>, NonEmpty), "&") :
            a \in {"", "a", "a=", "a=x", "a=b=c", "a=x&a"},
            f \in {"", "flag", "flag=", "flag=false", "flag=0", "flag=off", "flag=true", "flag=yes"} }
      QueryRoutes ==
        { Obj(a @@ f) :
            a \in {EmptyObj, Field("a", Str("")), Field("a", Str("x")), Field("a", Str("none"))},
            f \in {EmptyObj, Field("flag", Bool(TRUE)), Field("flag", Bool(FALSE))} }
      ItemC == segment(path(tag("Item"), "/shop"), "id", nestringAdapter)
      Cart == path(tag("Cart"), "/shop/cart")
      ItemQ == segment(extra(rPath("/shop"), Field("tag", Str("Item"))), "id", nestringAdapter)
      CartQ == extra(rPath("/shop/cart"), Field("tag", Str("Cart")))
      Undef == extra(rPath("/undefined"), Field("tag", Str("Undef")))
      UserE == path(embed(tag("User"), "user", Segment("id", nestringAdapter)), "/edit")
      TwoTags == extra(path(tag("A"), "/a"), Field("tag", Str("Z")))
      Page == params(Segment("n", natAdapter), <<<<"size", withDefault(natAdapter, Num(1))>>>>)
  IN
  << \* 1: the taxonomy of the README
     OneOfEntry(<<Home, Shop, Item>>, {"shop", "item", "42"}, {""}, {}),
     \* 2: no oneOf at all
     Entry(segment(rPath("/shop"), "id", nestringAdapter), <<>>,
           {"shop", "1", "a%2Fb"}, {""}, {}),
     \* 3: overlapping prefixes, two alternatives in the root bucket
     OneOfEntry(<<ShopP, ItemP, Home, AnyP>>, {"shop", "item", "42"}, {""}, {}),
     \* 4: a oneOf followed by a segment
     Entry(segment(OneOfOk(<<AltA, AltB>>), "id", nestringAdapter), <<>>,
           {"a", "b", "5"}, {""}, {}),
     \* 5: a oneOf in an embed
     Entry(embed(path(tag("Wrap"), "/w"), "sub", OneOfOk(<<AltA, AltB>>)), <<>>,
           {"w", "a", "b"}, {""}, {}),
     \* 6: a oneOf merged behind a path
     Entry(merge(rPath("/admin"), OneOfOk(<<AltA, AltB>>)), <<>>,
           {"admin", "a", "b"}, {""}, {}),
     \* 7: params with defaults
     Entry(params(rPath("/list"), DefaultFields), <<>>,
           {"list"}, DefaultQueries, DefaultRoutes),
     \* 8: a segment and a param with a default in one alternative
     OneOfEntry(<<Shop, Category, ItemR>>, {"category", "groceries", "item"},
                {"", "page=1", "page=2"}, {}),
     \* 9: an array of strings
     Entry(params(rPath("/t"), <<<<"xs", array(stringAdapter)>>>>), <<>>,
           {"t"}, {"", "xs=a,b", "xs=a%5C,b", "xs=", "xs=\"\"", "xs=%5C\"\""},
           {Obj(Field("xs", Arr(<<Str("")>>))), Obj(Field("xs", Arr(<<Str("a,b"), Str("c")>>)))}),
     \* 10: two alternatives that accept the same segment
     OneOfEntry(<<LitAlt, NatAlt>>, {"n", "42", "42abc"}, {""}, {}),
     \* 11: an extra payload
     Entry(extra(path(tag("E"), "/e"), Field("role", Str("admin"))), <<>>,
           {"e", "x"}, {""}, {Obj(Field("tag", Str("E")))}),
     \* 12: params whose adapters carry a name
     Entry(params(rPath("/nm"), NamedFields), <<>>, {"nm"}, NamedQueries, NamedRoutes),
     \* 13: a string and a boolean param
     Entry(params(rPath("/q"), QueryFields), <<>>, {"q"}, QueryQueries, QueryRoutes),
     \* 14: the longer literal prefix is declared last, the tag rule first
     OneOfEntry(<<ItemC, Cart>>, {"shop", "cart"}, {""}, {}),
     \* 15: the same alternatives with the path rule first
     OneOfEntry(<<ItemQ, CartQ>>, {"shop", "cart"}, {""}, {}),
     \* 16: a path of the segment 'undefined', and an embed before a path
     OneOfEntry(<<Undef, UserE>>, {"undefined", "5", "edit"}, {""}, {}),
     \* 17: a custom rule behind a path
     Entry(merge(rPath("/files"), Custom("rest", "restChunks")), <<>>,
           {"files", "a", "b"}, {""}, {Obj(Field("rest", Str("a/b")))}),
     \* 18: an alternative with two rules that set 'tag'
     OneOfEntry(<<TwoTags, AltB>>, {"a", "b"}, {""}, {}),
     \* 19: a oneOf behind a tag rule
     Entry(merge(path(tag("T"), "/t"), OneOfOk(<<AltA, AltB>>)), <<>>,
           {"t", "a", "b"}, {""}, {}),
     \* 20: an embed of a segment and params, between a segment and a path
     Entry(path(embed(segment(Path(<<>>), "name", nestringAdapter), "page", Page), "/end"), <<>>,
           {"bob", "7", "end"}, {"", "size=2"},
           {Obj(Field("name", Str("bob")) @@ Field("page", Obj(Field("n", Num(7)))))}),
     \* 21: a segment with a default
     Entry(segment(rPath("/p"), "page", withDefault(natAdapter, Num(1))), <<>>,
           {"p", "3"}, {""}, {Obj(EmptyObj), Obj(Field("page", Num(3)))}) >>

\* the sequences over S of length at most n
SeqsUpTo(S, n) == UNION { [1..k -> S] : k \in 0..n }

\* the URLs given to parse and parseAll for an entry of Descriptors: those of
\* its segments and queries, and URLs with malformed escapes, repeated '?'
\* and '=', and empty segments
Urls(e) ==
  { "/" \o JoinStr(p, "/") \o (IF q = "" THEN "" ELSE "?" \o q) :
      p \in SeqsUpTo(e.segs, MaxSegs), q \in e.queries }
    \cup {"", "/%", "/a?x=%zz", "/unknown", "/unknown-url", "//shop//", "/shop/item/42",
          "/shop?a=b=c", "/shop?x=1?y=2", "/shop/%41"}

\* adapters and the strings they are applied to
Adapters ==
  << natAdapter,
     withDefault(natAdapter, Num(1)),
     withName(withDefault(natAdapter, Num(1)), "sn"),
     dimap(withDefault(natAdapter, Num(1)), "inc", "dec"),
     withDefault(nestringAdapter, Str("none")),
     booleanAdapter,
     withDefault(literals(<<"art", "science">>), Str("art")),
     array(natAdapter) >>

\* longest list given to an array adapter
MaxList == 2

\* adapters whose unapply is followed by apply, and the values of their domains
LawAdapters == << array(stringAdapter), natAdapter, array(natAdapter) >>

Versions == {"part_006", "part_008", "parser.ts"}

MaxBuilds == 2
MaxArgs == 2

\* the rules of a descriptor in the order the revision goes through them
Rules(v, obj) == IF v = "part_006" THEN makeIterator(obj) ELSE obj

BuilderBase(v) ==
  CASE v = "part_006" -> tag("Shop")
    [] v = "part_008" -> RulesTag("Shop")
    [] v = "parser.ts" -> MethodsTag("Shop")

BuilderArg(v) ==
  CASE v = "part_006" -> rPath("/x")
    [] v = "part_008" -> RulesPush(<<>>, Path(PathSegments("/x")))
    [] v = "parser.ts" -> MethodsPath(<<>>, "/x")

\* arguments for oneOf: tag('Home').path('/'), tag('').path('/e'), path('/y'),
\* path('/z').extra({ tag: 'Z' }), path('/n').extra({ tag: 7 }),
\* tag('Item').path('/shop/item').segment('id', nestring),
\* tag('User').embed('user', segment('id', nestring)).path('/edit'),
\* tag('A').embed('s', path('/x')).path('/y')
OneOfArgs(v) ==
  CASE v = "part_006" ->
         { path(tag("Home"), "/"), path(tag(""), "/e"), rPath("/y"),
           extra(rPath("/z"), Field("tag", Str("Z"))), extra(rPath("/n"), Field("tag", Num(7))),
           segment(path(tag("Item"), "/shop/item"), "id", nestringAdapter),
           path(embed(tag("User"), "user", Segment("id", nestringAdapter)), "/edit"),
           path(embed(tag("A"), "s", rPath("/x")), "/y") }
    [] v = "part_008" ->
         { RulesPush(RulesTag("Home"), Path(PathSegments("/"))), RulesPush(RulesTag(""), Path(PathSegments("/e"))), RulesPush(<<>>, Path(PathSegments("/y"))),
           RulesPush(RulesPush(<<>>, Path(PathSegments("/z"))), Extra(Field("tag", Str("Z")))),
           RulesPush(RulesPush(<<>>, Path(PathSegments("/n"))), Extra(Field("tag", Num(7)))),
           RulesPush(RulesPush(RulesTag("Item"), Path(PathSegments("/shop/item"))),
                     Segment("id", nestringAdapter)),
           RulesPush(RulesPush(RulesTag("User"),
                               EmbedRules("user", <<Segment("id", nestringAdapter)>>)),
                     Path(PathSegments("/edit"))),
           RulesPush(RulesPush(RulesTag("A"), EmbedRules("s", <<Path(PathSegments("/x"))>>)),
                     Path(PathSegments("/y"))) }
    [] v = "parser.ts" ->
         { MethodsPath(MethodsTag("Home"), "/"), MethodsPath(MethodsTag(""), "/e"),
           MethodsPath(<<>>, "/y"),
           MethodsAdd(MethodsPath(<<>>, "/z"), Extra(Field("tag", Str("Z")))),
           MethodsAdd(MethodsPath(<<>>, "/n"), Extra(Field("tag", Num(7)))),
           MethodsAdd(MethodsPath(MethodsTag("Item"), "/shop/item"),
                      Segment("id", nestringAdapter)),
           MethodsPath(MethodsAdd(MethodsTag("User"),
                                  Embed("user", <<Segment("id", nestringAdapter)>>)),
                       "/edit"),
           MethodsPath(MethodsAdd(MethodsTag("A"), Embed("s", MethodsPath(<<>>, "/x"))), "/y") }

----------------------------------------------------------------------------
(* The state machine: one call of the library per step *)

VARIABLES
  mode,     \* which calls the behaviour makes: "parse", "print" or "adapter"
  pc,       \* the last call made
  d,        \* index of the descriptor in Descriptors
  url,      \* the URL given to parse and parseAll
  res,      \* outcome of parse(url)
  cursor,   \* the idx of the state paired with the route parse returns
  alone,    \* for a oneOf: outcome of each alternative parsed on its own
  cands,    \* the <<route, consumed>> pairs doParse yields for parseAll
  linear,   \* for a oneOf: the pairs of every alternative tried one after another
  all,      \* outcome of parseAll(url)
  allIdx,   \* the consumed counts of the elements of all, in order
  route,    \* the route given to print
  chunks,   \* outcome of doPrint(route)
  printed,  \* outcome of print(route)
  res2,     \* outcome of parse(printed)
  filled,   \* outcome of toOutput(route)
  adp,      \* index of the adapter in Adapters
  ain,      \* the Option of a string given to the adapter
  aoutOpt,  \* outcome of applyOption(ain)
  aout,     \* outcome of apply on the string of ain
  aval,     \* the value given to unapply
  astr,     \* the string unapply returned for aval
  aback,    \* outcome of apply on astr
  version,  \* the revision of parser.ts whose builders and oneOf are called
  heap,     \* the descriptor objects: the base and the argument of the builders,
            \* or the arguments of oneOf
  made,     \* which object each builder call returned, in order
  built,    \* outcome of oneOf(...heap)
  opts,     \* the options doParse is stepped with
  prevState, \* the state parseMultiple is called with
  iter,     \* the trie node the descent of the OneOf case is at
  idx,      \* the idx of that descent
  parents,  \* the nodes the descent has pushed
  pi,       \* the position in parents of the node whose bucket is tried
  bi,       \* the position in that bucket of the parser that is tried
  root,     \* the root of makeIterator on that parser
  stack,    \* the stack of makeIterator
  yielded,  \* what makeIterator has yielded
  rk,       \* the position in yielded of the rule doParse is at
  ri,       \* the i of the while loop over results
  results,  \* the results of doParse on that parser
  output    \* the output of the OneOf case

routeVars == <<d, url, res, cursor, alone, cands, linear, all, allIdx, route, chunks, printed, res2, filled>>
adapterVars == <<adp, ain, aoutOpt, aout, aval, astr, aback>>
builderVars == <<version, heap, made, built>>
loopVars == <<opts, prevState, iter, idx, parents, pi, bi, root, stack, yielded, rk, ri, results, output>>
vars == <<mode, pc, routeVars, adapterVars, builderVars, loopVars>>

Nil == <<"nil">>

RouteIdle ==
  /\ d = 0 /\ url = "" /\ res = Nil /\ cursor = -1 /\ alone = <<>> /\ cands = <<>> /\ linear = <<>>
  /\ all = Nil /\ allIdx = <<>> /\ route = Nil /\ chunks = Nil /\ printed = Nil /\ res2 = Nil
  /\ filled = Nil

AdapterIdle ==
  adp = 0 /\ ain = Nil /\ aoutOpt = Nil /\ aout = Nil /\ aval = Nil /\ astr = Nil /\ aback = Nil

BuilderIdle == version = "" /\ heap = <<>> /\ made = <<>> /\ built = Nil

LoopIdle ==
  /\ opts = 0 /\ prevState = Nil /\ iter = Nil /\ idx = 0 /\ parents = <<>> /\ pi = 0 /\ bi = 0 /\ root = Nil
  /\ stack = <<>> /\ yielded = <<>> /\ rk = 0 /\ ri = 0 /\ results = <<>> /\ output = <<>>

InitParse ==
  /\ mode = "parse" /\ pc = "start"
  /\ d \in 1..Len(Descriptors)
  /\ url \in Urls(Descriptors[d])
  /\ res = Nil /\ cursor = -1 /\ alone = <<>> /\ cands = <<>> /\ linear = <<>>
  /\ all = Nil /\ allIdx = <<>> /\ route = Nil /\ chunks = Nil /\ printed = Nil /\ res2 = Nil
  /\ filled = Nil
  /\ AdapterIdle /\ BuilderIdle /\ LoopIdle

InitPrint ==
  /\ mode = "print" /\ pc = "start"
  /\ d \in 1..Len(Descriptors)
  /\ route \in Descriptors[d].routes
  /\ url = "" /\ res = Nil /\ cursor = -1 /\ alone = <<>> /\ cands = <<>> /\ linear = <<>>
  /\ all = Nil /\ allIdx = <<>> /\ chunks = Nil /\ printed = Nil /\ res2 = Nil
  /\ filled = Nil
  /\ AdapterIdle /\ BuilderIdle /\ LoopIdle

InitAdapter ==
  /\ mode = "adapter" /\ pc = "start"
  /\ adp \in 1..Len(Adapters)
  /\ ain \in {none} \cup {some(x) : x \in {"", "0", "1", "42", "42abc", "abc", "-1", "1.5",
                                          "art", "off", "1,2", "1,x"}}
  /\ aoutOpt = Nil /\ aout = Nil /\ aval = Nil /\ astr = Nil /\ aback = Nil
  /\ RouteIdle /\ BuilderIdle /\ LoopIdle

\* an adapter of LawAdapters and a value of its domain
InitLaw ==
  LET LawValues(i) ==
        CASE i = 1 -> { Arr([k \in 1..Len(xs) |-> Str(xs[k])]) :
                          xs \in SeqsUpTo({"", "a", ",", "\\", "\"\"", "a,\\b"}, MaxList) }
          [] i = 2 -> { Num(0), Num(7), Num(42) }
          [] i = 3 -> { Arr([k \in 1..Len(xs) |-> Num(xs[k])]) : xs \in SeqsUpTo({0, 7}, MaxList) }
  IN
  /\ mode = "law" /\ pc = "start"
  /\ adp \in 1..Len(LawAdapters)
  /\ aval \in LawValues(adp)
  /\ ain = Nil /\ aoutOpt = Nil /\ aout = Nil /\ astr = Nil /\ aback = Nil
  /\ RouteIdle /\ BuilderIdle /\ LoopIdle

\* the base descriptor tag('Shop') and the argument path('/x') of each revision
InitBuilder ==
  /\ mode = "builder" /\ pc = "start"
  /\ version \in Versions
  /\ heap = <<BuilderBase(version), BuilderArg(version)>>
  /\ made = <<>> /\ built = Nil
  /\ RouteIdle /\ AdapterIdle /\ LoopIdle

InitOneOf ==
  /\ mode = "oneOf" /\ pc = "start"
  /\ version \in Versions
  /\ heap \in SeqsUpTo(OneOfArgs(version), MaxArgs)
  /\ made = <<>> /\ built = Nil
  /\ RouteIdle /\ AdapterIdle /\ LoopIdle

Init == InitParse \/ InitPrint \/ InitAdapter \/ InitLaw \/ InitBuilder \/ InitOneOf

\* the <<route, idx>> pairs doParse yields from the outcome of prepareState
Candidates(parser, state, options) ==
  LET IdxPairs(pairs) == [i \in 1..Len(pairs) |-> <<Obj(pairs[i][1]), pairs[i][2].idx>>]
  IN  IF IsThrow(state) THEN <<>> ELSE IdxPairs(doParse(parser, state[2], options))

\* the OneOf case without the trie: the pairs of every parser of the tags, in
\* the order of the keys, each parsed from the outcome of prepareState
linearDispatch(parser, state) ==
  LET RECURSIVE From(_)
      From(i) ==
        IF i > Len(parser.tags) THEN <<>>
        ELSE Candidates(parser.tags[i][2], state, NoOptions) \o From(i + 1)
  IN  IF parser.cls = "OneOf" THEN From(1) ELSE <<>>

\* parse(url), with the cursor of the pair it returns and the first pair of
\* every alternative parsed on its own
Parse ==
  LET FirstPair(pairs) == IF Len(pairs) # 0 THEN pairs[1] ELSE <<JSNull, -1>>
  IN  /\ mode = "parse" /\ pc = "start"
      /\ res' = parse(Descriptors[d].parser, url)
      /\ cursor' = FirstPair(Candidates(Descriptors[d].parser, prepareState(url),
                                        OnlyFirstMatch))[2]
      /\ alone' = [i \in 1..Len(Descriptors[d].alts) |->
                     FirstPair(Candidates(Descriptors[d].alts[i], prepareState(url),
                                          OnlyFirstMatch))]
      /\ pc' = "parsed"
      /\ UNCHANGED <<mode, loopVars, d, url, cands, linear, all, allIdx, route, chunks, printed, res2, filled,
                     adapterVars, builderVars>>

\* parseAll(url), with the pairs it chose from and the idx of those it kept
ParseAll ==
  LET Idxs(pairs) == [i \in 1..Len(pairs) |-> pairs[i][2].idx]
      \* the idx of the pairs parseAll keeps, from the outcome of prepareState
      KeptIdx(parser, state) ==
        IF IsThrow(state) THEN <<>>
        ELSE Idxs(parseAllPairs(doParse(parser, state[2], NoOptions)))
  IN
  /\ mode = "parse" /\ pc = "parsed"
  /\ all' = parseAll(Descriptors[d].parser, url)
  /\ cands' = Candidates(Descriptors[d].parser, prepareState(url), NoOptions)
  /\ linear' = linearDispatch(Descriptors[d].parser, prepareState(url))
  /\ allIdx' = KeptIdx(Descriptors[d].parser, prepareState(url))
  /\ pc' = "all"
  /\ UNCHANGED <<mode, loopVars, d, url, res, cursor, alone, route, chunks, printed, res2, filled,
                 adapterVars, builderVars>>

\* print(route), of the route parse returned or of the route given
PrintRoute ==
  /\ \/ mode = "parse" /\ pc = "all" /\ ~IsThrow(res) /\ res[2] # JSNull /\ route' = res[2]
     \/ mode = "print" /\ pc = "start" /\ route' = route
  /\ chunks' = doPrint(Descriptors[d].parser, route')
  /\ printed' = print(Descriptors[d].parser, route')
  /\ pc' = "printed"
  /\ UNCHANGED <<mode, loopVars, d, url, res, cursor, alone, cands, linear, all, allIdx, res2, filled, adapterVars, builderVars>>

\* parse(print(route))
Reparse ==
  /\ pc = "printed" /\ ~IsThrow(printed)
  /\ res2' = parse(Descriptors[d].parser, printed[2])
  /\ pc' = "reparsed"
  /\ UNCHANGED <<mode, loopVars, d, url, res, cursor, alone, cands, linear, all, allIdx, route, chunks, printed, filled, adapterVars, builderVars>>

\* toOutput(route), of the route that was printed
ToOutput ==
  /\ mode \in {"parse", "print"} /\ pc = "reparsed"
  /\ filled' = toOutput(Descriptors[d].parser, route)
  /\ pc' = "completed"
  /\ UNCHANGED <<mode, loopVars, d, url, res, cursor, alone, cands, linear, all, allIdx, route,
                 chunks, printed, res2, adapterVars, builderVars>>

\* adapter.applyOption(ain)
ApplyOption ==
  /\ mode = "adapter" /\ pc = "start"
  /\ aoutOpt' = applyOption(Adapters[adp], ain)
  /\ pc' = "optionApplied"
  /\ UNCHANGED <<mode, loopVars, routeVars, adp, ain, aout, aval, astr, aback, builderVars>>

\* adapter.apply(s) for a present string
Apply ==
  /\ mode = "adapter" /\ pc = "optionApplied" /\ isSome(ain)
  /\ aout' = apply(Adapters[adp], ain[2])
  /\ pc' = "applied"
  /\ UNCHANGED <<mode, loopVars, routeVars, adp, ain, aoutOpt, aval, astr, aback, builderVars>>

\* adapter.unapply(aval)
Unapply ==
  /\ mode = "law" /\ pc = "start"
  /\ astr' = unapply(LawAdapters[adp], aval)
  /\ pc' = "unapplied"
  /\ UNCHANGED <<mode, loopVars, routeVars, adp, ain, aoutOpt, aout, aval, aback, builderVars>>

\* adapter.apply(adapter.unapply(aval))
ApplyBack ==
  /\ mode = "law" /\ pc = "unapplied"
  /\ aback' = apply(LawAdapters[adp], astr)
  /\ pc' = "back"
  /\ UNCHANGED <<mode, loopVars, routeVars, adp, ain, aoutOpt, aout, aval, astr, builderVars>>

\* a new object on the heap, returned
New(objects, obj) == <<Append(objects, obj), Len(objects) + 1>>

\* the receiver changed in place, returned
Mutated(objects, this, rules) == <<[objects EXCEPT ![this] = rules], this>>

\* one builder call on the base, result being <<heap, returned object>>
Build(result) ==
  /\ mode = "builder" /\ Len(made) < MaxBuilds
  /\ heap' = result[1]
  /\ made' = Append(made, result[2])
  /\ pc' = "built"
  /\ UNCHANGED <<mode, loopVars, routeVars, adapterVars, version, built>>

\* base.path(str)
BuildPath ==
  \E str \in {"/a", "/b/c"} :
    Build(CASE version = "part_006" -> New(heap, path(heap[1], str))
            [] version = "part_008" -> Mutated(heap, 1, RulesPush(heap[1], Path(PathSegments(str))))
            [] version = "parser.ts" -> New(heap, MethodsPath(heap[1], str)))

\* base.segment(key, nestring)
BuildSegment ==
  \E key \in {"id", "slug"} :
    Build(CASE version = "part_006" -> New(heap, segment(heap[1], key, nestringAdapter))
            [] version = "part_008" -> Mutated(heap, 1, RulesPush(heap[1], Segment(key, nestringAdapter)))
            [] version = "parser.ts" -> New(heap, MethodsAdd(heap[1], Segment(key, nestringAdapter))))

\* base.params({ [key]: nat })
BuildParams ==
  \E key \in {"page", "q"} :
    Build(CASE version = "part_006" -> New(heap, params(heap[1], <<<<key, natAdapter>>>>))
            [] version = "part_008" -> Mutated(heap, 1, RulesPush(heap[1], Params(<<<<key, natAdapter>>>>)))
            [] version = "parser.ts" -> New(heap, MethodsAdd(heap[1], [cls |-> "Params", description |-> <<<<key, natAdapter>>>>])))

\* base.extra({ role })
BuildExtra ==
  \E role \in {"admin", "guest"} :
    Build(CASE version = "part_006" -> New(heap, extra(heap[1], Field("role", Str(role))))
            [] version = "part_008" -> Mutated(heap, 1, RulesPush(heap[1], Extra(Field("role", Str(role)))))
            [] version = "parser.ts" -> New(heap, MethodsAdd(heap[1], Extra(Field("role", Str(role))))))

\* base.embed(key, argument)
BuildEmbed ==
  \E key \in {"sub", "inner"} :
    Build(CASE version = "part_006" -> New(heap, embed(heap[1], key, heap[2]))
            [] version = "part_008" -> Mutated(heap, 1, RulesPush(heap[1], EmbedRules(key, heap[2])))
            [] version = "parser.ts" -> New(heap, MethodsAdd(heap[1], Embed(key, heap[2]))))

\* base.merge(argument), named concat in the revisions with arrays
BuildMerge ==
  LET \* concat: that.rules.forEach(x => this.rules.push(x))
      RulesConcat(rules, that) == rules \o that
      \* concat: this.methods.concat(that.methods)
      MethodsConcat(methods, that) == methods \o that
  IN
  Build(CASE version = "part_006" -> New(heap, merge(heap[1], heap[2]))
          [] version = "part_008" -> Mutated(heap, 1, RulesConcat(heap[1], heap[2]))
          [] version = "parser.ts" -> New(heap, MethodsConcat(heap[1], heap[2])))

\* oneOf(...heap)
Construct ==
  /\ mode = "oneOf" /\ pc = "start"
  /\ built' = CASE version = "part_006" -> oneOf(heap)
                [] version = "part_008" -> RulesOneOf(heap)
                [] version = "parser.ts" -> MethodsOneOf(heap)
  /\ pc' = "constructed"
  /\ UNCHANGED <<mode, loopVars, routeVars, adapterVars, version, heap, made>>

\* the candidates of the OneOf that oneOf returned, for a URL: those its
\* prefix trie leads to, and those of its alternatives tried one after another
\* with the rules in the order they were given to oneOf
Dispatch ==
  LET \* the argument whose tag is k, the last one given
      Declared(k) ==
        heap[CHOOSE i \in 1..Len(heap) :
               /\ FirstTag(heap[i]) = Str(k)
               /\ \A j \in (i + 1)..Len(heap) : FirstTag(heap[j]) # Str(k)]
      IdxPairs(pairs) == [i \in 1..Len(pairs) |-> <<Obj(pairs[i][1]), pairs[i][2].idx>>]
      RECURSIVE RulesLinear(_, _, _)
      RulesLinear(tags, i, state) ==
        IF i > Len(tags) THEN <<>>
        ELSE IdxPairs(RulesDoParse(Declared(tags[i][1]), state, NoOptions))
             \o RulesLinear(tags, i + 1, state)
  IN  /\ mode = "oneOf" /\ pc = "constructed" /\ ~IsThrow(built)
      /\ version \in {"part_006", "part_008"}
      /\ \E u \in {"/", "/y", "/z", "/shop/item/42", "/5/edit", "/edit/5"} :
           /\ url' = u
           /\ cands' = IF version = "part_006"
                        THEN Candidates(built[2], prepareState(u), NoOptions)
                        ELSE IdxPairs(RulesDoParse(built[2], prepareState(u)[2], NoOptions))
           /\ linear' = IF version = "part_006"
                         THEN linearDispatch(built[2], prepareState(u))
                         ELSE RulesLinear(built[2][1].tags, 1, prepareState(u)[2])
      /\ pc' = "dispatched"
      /\ UNCHANGED <<mode, loopVars, d, res, cursor, alone, all, allIdx, route, chunks, printed, res2, filled,
                     adapterVars, builderVars>>

\* print(route) on the OneOf that oneOf returned
PrintBuilt ==
  /\ mode = "oneOf" /\ pc = "constructed" /\ ~IsThrow(built)
  /\ version \in {"part_006", "part_008"}
  /\ \E r \in { Obj(Field("tag", Str("Home"))),
                 Obj(Field("tag", Str("Item")) @@ Field("id", Str("42"))),
                 Obj(Field("tag", Str("User")) @@ Field("user", Obj(Field("id", Str("5"))))),
                 Obj(Field("tag", Str("A")) @@ Field("s", Obj(EmptyObj))) } :
       /\ route' = r
       /\ chunks' = IF version = "part_006" THEN doPrint(built[2], r)
                    ELSE RulesDoPrint(built[2], r)
  /\ pc' = "emitted"
  /\ UNCHANGED <<mode, loopVars, d, url, res, cursor, alone, cands, linear, all, allIdx,
                 printed, res2, filled, adapterVars, builderVars>>

Next ==
  \/ Parse \/ ParseAll \/ PrintRoute \/ Reparse \/ ToOutput
  \/ ApplyOption \/ Apply
  \/ Unapply \/ ApplyBack
  \/ Dispatch \/ PrintBuilt
  \/ BuildPath \/ BuildSegment \/ BuildParams \/ BuildExtra \/ BuildEmbed \/ BuildMerge
  \/ Construct

Spec == Init /\ [][Next]_vars

----------------------------------------------------------------------------
(* The loops of doParse on a oneOf, one iteration per step: the descent of
   the OneOf case, its loops over the buckets, makeIterator on the parser of
   a bucket and the loops of doParse over its rules and results *)

\* parse (OnlyFirstMatch) or parseAll of a oneOf on a URL, when doParse has
\* called parseMultiple on the OneOf with [{}, prepareState(url)]; the oneOfs
\* are those of Path, Segment, Extra and Embed rules
LoopInit ==
  /\ mode = "loop" /\ pc = "descent"
  /\ d \in {1, 3, 14, 15, 16}
  /\ url \in {u \in Urls(Descriptors[d]) : ~IsThrow(prepareState(u))}
  /\ opts \in {OnlyFirstMatch, NoOptions}
  /\ prevState = prepareState(url)[2]
  /\ iter = Descriptors[d].parser.prefixTrie /\ idx = 0 /\ parents = <<>>
  /\ pi = 0 /\ bi = 0 /\ root = Nil /\ stack = <<>> /\ yielded = <<>>
  /\ rk = 0 /\ ri = 0 /\ results = <<>> /\ output = <<>>
  /\ res = Nil /\ cursor = -1 /\ alone = <<>> /\ cands = <<>> /\ linear = <<>>
  /\ all = Nil /\ allIdx = <<>> /\ route = Nil /\ chunks = Nil /\ printed = Nil /\ res2 = Nil
  /\ filled = Nil
  /\ AdapterIdle /\ BuilderIdle

\* a descent that breaks only where the segments end
DescentStepToEnd ==
  LET Known(segments) == idx < Len(segments) /\ segments[idx + 1] \in DOMAIN iter.kids
  IN  /\ mode = "loop" /\ pc = "descent"
      /\ parents' = Append(parents, iter)
      /\ idx' = idx + 1
      /\ iter' = IF Known(prevState.segments) THEN iter.kids[prevState.segments[idx + 1]] ELSE iter
      /\ IF idx >= Len(prevState.segments)
         THEN pc' = "candidates" /\ pi' = Len(parents) + 1 /\ bi' = 1
         ELSE pc' = "descent" /\ UNCHANGED <<pi, bi>>
      /\ UNCHANGED <<mode, routeVars, adapterVars, builderVars,
                     opts, prevState, root, stack, yielded, rk, ri, results, output>>

\* one iteration of the do-while of the OneOf case
DescentStep ==
  LET \* segments[idx], undefined beyond the end
      NextSegment(segments) == IF idx < Len(segments) THEN segments[idx + 1] ELSE "undefined"
      \* !iter.hasOwnProperty(nextSegment)
      Breaks(nextSegment) == nextSegment \notin DOMAIN iter.kids
  IN  /\ mode = "loop" /\ pc = "descent"
      /\ parents' = Append(parents, iter)
      /\ idx' = idx + 1
      /\ IF Breaks(NextSegment(prevState.segments))
         THEN pc' = "candidates" /\ pi' = Len(parents) + 1 /\ bi' = 1 /\ iter' = iter
         ELSE /\ pc' = "descent" /\ iter' = iter.kids[NextSegment(prevState.segments)]
              /\ UNCHANGED <<pi, bi>>
      /\ UNCHANGED <<mode, routeVars, adapterVars, builderVars,
                     opts, prevState, root, stack, yielded, rk, ri, results, output>>

\* the headers of the loops over parents and over parents[i]['']: the next
\* parser, on which doParse starts makeIterator, or return output
CandidateStep ==
  /\ mode = "loop" /\ pc = "candidates"
  /\ IF pi < 1
     THEN pc' = "done" /\ UNCHANGED <<pi, bi, root, stack, yielded>>
     ELSE IF bi > Len(parents[pi].bucket)
     THEN pi' = pi - 1 /\ bi' = 1 /\ pc' = "candidates" /\ UNCHANGED <<root, stack, yielded>>
     ELSE /\ root' = parents[pi].bucket[bi] /\ stack' = <<>> /\ yielded' = <<>>
          /\ pc' = "iterate" /\ UNCHANGED <<pi, bi>>
  /\ UNCHANGED <<mode, routeVars, adapterVars, builderVars,
                 opts, prevState, iter, idx, parents, rk, ri, results, output>>

\* a round of makeIterator that yields every node it leaves, Merge nodes too
IterStepYieldsAll ==
  LET left(p) == IF p.cls = "Merge" THEN p.first ELSE Null
      right(p) == IF p.cls = "Merge" THEN p.second ELSE Null
      RECURSIVE PushLeft(_, _)
      \* while (root !== null) { stack.push(right(root)); stack.push(root); root = left(root); }
      PushLeft(r, st) == IF r = Null THEN st ELSE PushLeft(left(r), st \o <<right(r), r>>)
      \* root = stack.pop() || null, then the swap with the right subtree or the yield
      Visit(top, rest) ==
        IF top # Null /\ Len(rest) # 0 /\ right(top) = rest[Len(rest)]
        THEN /\ stack' = Append(SubSeq(rest, 1, Len(rest) - 1), top)
             /\ root' = right(top)
             /\ yielded' = yielded
        ELSE /\ stack' = rest
             /\ root' = Null
             /\ yielded' = IF top.cls # "null" THEN Append(yielded, top) ELSE yielded
      Round(st) == Visit(st[Len(st)], SubSeq(st, 1, Len(st) - 1))
  IN  /\ mode \in {"loop", "iterator"} /\ pc = "iterate"
      /\ Round(PushLeft(root, stack))
      /\ IF Len(stack') # 0
         THEN pc' = "iterate" /\ UNCHANGED <<rk, ri, results>>
         ELSE IF mode = "iterator"
         THEN pc' = "returned" /\ UNCHANGED <<rk, ri, results>>
         ELSE /\ pc' = "rules" /\ rk' = 1 /\ ri' = 1
              /\ results' = <<<<EmptyObj, prevState>>>>
      /\ UNCHANGED <<mode, routeVars, adapterVars, builderVars,
                     opts, prevState, iter, idx, parents, pi, bi, output>>

\* one round of the do-while of makeIterator; when the stack is empty doParse
\* starts on the rules with results = [[{}, state.clone()]]
IterStep ==
  LET left(p) == IF p.cls = "Merge" THEN p.first ELSE Null
      right(p) == IF p.cls = "Merge" THEN p.second ELSE Null
      RECURSIVE PushLeft(_, _)
      \* while (root !== null) { stack.push(right(root)); stack.push(root); root = left(root); }
      PushLeft(r, st) == IF r = Null THEN st ELSE PushLeft(left(r), st \o <<right(r), r>>)
      \* root = stack.pop() || null, then the swap with the right subtree or the yield
      Visit(top, rest) ==
        IF top # Null /\ Len(rest) # 0 /\ right(top) = rest[Len(rest)]
        THEN /\ stack' = Append(SubSeq(rest, 1, Len(rest) - 1), top)
             /\ root' = right(top)
             /\ yielded' = yielded
        ELSE /\ stack' = rest
             /\ root' = Null
             /\ yielded' = IF top.cls \notin {"Merge", "null"} THEN Append(yielded, top)
                            ELSE yielded
      Round(st) == Visit(st[Len(st)], SubSeq(st, 1, Len(st) - 1))
  IN  /\ mode \in {"loop", "iterator"} /\ pc = "iterate"
      /\ Round(PushLeft(root, stack))
      /\ IF Len(stack') # 0
         THEN pc' = "iterate" /\ UNCHANGED <<rk, ri, results>>
         ELSE IF mode = "iterator"
         THEN pc' = "returned" /\ UNCHANGED <<rk, ri, results>>
         ELSE /\ pc' = "rules" /\ rk' = 1 /\ ri' = 1
              /\ results' = <<<<EmptyObj, prevState>>>>
      /\ UNCHANGED <<mode, routeVars, adapterVars, builderVars,
                     opts, prevState, iter, idx, parents, pi, bi, output>>

\* one iteration of the while loop over results for the rule at rk, the step
\* to the next rule, or the return of doParse into the loop over its pairs
RuleStep ==
  LET IsSingle(p) == p.cls \in {"Params", "Segment", "Path", "Extra"}
      \* the loop over the pairs doParse returned
      Return(pairs) ==
        IF opts % 2 = 1 /\ Len(FirstFull(pairs)) # 0
        THEN output' = FirstFull(pairs) /\ pc' = "done" /\ bi' = bi
        ELSE /\ output' = IF opts % 2 = 1 THEN output ELSE output \o pairs
             /\ bi' = bi + 1 /\ pc' = "candidates"
      \* if (!parseSingle(...)) results.splice(i, 1); else i++
      Single(r) ==
        IF r[1] THEN results' = [results EXCEPT ![ri] = <<r[2], r[3]>>] /\ ri' = ri + 1
        ELSE /\ results' = SubSeq(results, 1, ri - 1) \o SubSeq(results, ri + 1, Len(results))
             /\ ri' = ri
      \* results.splice(i, 1, ...replacements); i += replacements.length
      Multiple(replacements) ==
        /\ results' = SubSeq(results, 1, ri - 1) \o replacements
                         \o SubSeq(results, ri + 1, Len(results))
        /\ ri' = ri + Len(replacements)
  IN  /\ mode = "loop" /\ pc = "rules"
      /\ IF rk > Len(yielded) \/ (ri > Len(results) /\ Len(results) = 0)
         THEN Return(results) /\ UNCHANGED <<rk, ri, results>>
         ELSE IF ri > Len(results)
         THEN rk' = rk + 1 /\ ri' = 1 /\ UNCHANGED <<pc, bi, results, output>>
         ELSE /\ IF IsSingle(yielded[rk])
                 THEN Single(parseSingle(yielded[rk], results[ri][1], results[ri][2]))
                 ELSE Multiple(parseMultiple(yielded[rk], results[ri][1], results[ri][2], opts))
              /\ UNCHANGED <<pc, bi, rk, output>>
      /\ UNCHANGED <<mode, routeVars, adapterVars, builderVars,
                     opts, prevState, iter, idx, parents, pi, root, stack, yielded>>

LoopNext == DescentStep \/ CandidateStep \/ IterStep \/ RuleStep

\* every loop is deterministic code that runs until it returns
LoopSpec == LoopInit /\ [][LoopNext]_vars /\ WF_vars(LoopNext)

----------------------------------------------------------------------------
(* doParse on a heap: every ParserState and every route object is a cell of the
   sequence mem and is referred to by its index, so that a write through one
   reference is seen through every other reference to the same object *)

\* the state itself where ParserState.prototype.clone returns a new object
cloneShared(mem, state) == [mem |-> mem, at |-> state]

\* ParserState.prototype.clone: new ParserState(this.segments, this.params, this.idx)
\* (segments and params stay the arrays of the original; no statement writes them)
clone(mem, state) == [mem |-> Append(mem, mem[state]), at |-> Len(mem) + 1]

RECURSIVE doParseRef(_, _, _, _)
\* doParse(parser, state, options) on the heap mem: the pairs <<route, state>>
\* of references it returns and the heap it leaves
doParseRef(parser, state, options, mem) ==
  LET IsSingle(p) == p.cls \in {"Params", "Segment", "Path", "Extra"}
      Write(h, a, v) == [h EXCEPT ![a] = v]
      Returned(pairs, h) == [pairs |-> pairs, mem |-> h]
      RECURSIVE SingleLoop(_, _, _, _, _)
      RECURSIVE SingleNext(_, _, _, _, _, _)
      \* while (i < results.length) if (!parseSingle(p, results[i][0], results[i][1])) ...
      SingleLoop(p, rs, i, kept, h) ==
        IF i > Len(rs) THEN Returned(kept, h)
        ELSE SingleNext(p, rs, i, kept, h,
                        parseSingle(p, h[rs[i][1]], h[rs[i][2]]))
      \* parseSingle has written the output and the state it was given
      SingleNext(p, rs, i, kept, h, r) ==
        SingleLoop(p, rs, i + 1, IF r[1] THEN Append(kept, rs[i]) ELSE kept,
                   Write(Write(h, rs[i][1], r[2]), rs[i][2], r[3]))
      RECURSIVE Alternatives(_, _, _, _, _, _)
      RECURSIVE Pairs(_, _, _, _, _, _, _)
      RECURSIVE Assigned(_, _, _, _, _, _, _)
      \* for (const rules of parents[i]['']) for (const pair of doParse(rules, prevState, options))
      Alternatives(alts, a, out, prevOutput, prev, h) ==
        IF a > Len(alts) THEN Returned(out, h)
        ELSE Pairs(alts, a, out, prevOutput, prev,
                   doParseRef(alts[a], prev, options, h), 1)
      Pairs(alts, a, out, prevOutput, prev, r, j) ==
        IF j > Len(r.pairs) THEN Alternatives(alts, a + 1, out, prevOutput, prev, r.mem)
        ELSE Assigned(alts, a, out, prevOutput, prev, j,
                      Returned(r.pairs, Write(r.mem, r.pairs[j][1],
                                              ObjectAssign(r.mem[r.pairs[j][1]], r.mem[prevOutput]))))
      \* Object.assign(route, prevOutput) is done: push the pair, or return it alone
      Assigned(alts, a, out, prevOutput, prev, j, r) ==
        IF options % 2 = 1
        THEN IF IsFull(<<r.pairs[j][1], r.mem[r.pairs[j][2]]>>)
             THEN Returned(<<r.pairs[j]>>, r.mem)
             ELSE Pairs(alts, a, out, prevOutput, prev, r, j + 1)
        ELSE Pairs(alts, a, Append(out, r.pairs[j]), prevOutput, prev, r, j + 1)
      RECURSIVE Allocated(_, _, _, _)
      \* the pairs a function given to custom returns are objects it has made
      Allocated(vals, i, pairs, h) ==
        IF i > Len(vals) THEN Returned(pairs, h)
        ELSE Allocated(vals, i + 1, Append(pairs, <<Len(h) + 1, Len(h) + 2>>),
                       h \o <<vals[i][1], vals[i][2]>>)
      RECURSIVE Embedded(_, _, _, _, _)
      \* output[i][0] = Object.assign({ [parser._key]: output[i][0] }, prevOutput)
      Embedded(key, prevOutput, r, i, out) ==
        IF i > Len(r.pairs) THEN Returned(out, r.mem)
        ELSE Embedded(key, prevOutput,
                      Returned(r.pairs, Append(r.mem, ObjectAssign(Field(key, Obj(r.mem[r.pairs[i][1]])),
                                                                   r.mem[prevOutput]))),
                      i + 1, Append(out, <<Len(r.mem) + 1, r.pairs[i][2]>>))
      parseMultipleRef(p, prevOutput, prev, h) ==
        CASE p.cls = "OneOf" ->
               Alternatives(FlatBuckets(TrieParents(p.prefixTrie, h[prev].segments,
                                                    h[prev].idx, <<>>)),
                            1, <<>>, prevOutput, prev, h)
          [] p.cls = "Custom" ->
               Pairs(<<>>, 1, <<>>, prevOutput, prev,
                     Allocated(CustomFn(p.parse, h[prev]), 1, <<>>, h), 1)
          [] p.cls = "Embed" ->
               Embedded(p.key, prevOutput, doParseRef(p.parser, prev, options, h), 1, <<>>)
          [] p.cls = "Merge" -> Returned(<<>>, h)
      RECURSIVE MultipleLoop(_, _, _, _, _)
      RECURSIVE MultipleNext(_, _, _, _, _)
      \* const replacements = parseMultiple(p, results[i][0], results[i][1])
      MultipleLoop(p, rs, i, out, h) ==
        IF i > Len(rs) THEN Returned(out, h)
        ELSE MultipleNext(p, rs, i, out,
                          parseMultipleRef(p, rs[i][1], rs[i][2], h))
      \* results.splice(i, 1, ...replacements)
      MultipleNext(p, rs, i, out, r) ==
        MultipleLoop(p, rs, i + 1, out \o r.pairs, r.mem)
      RECURSIVE RuleLoop(_, _, _)
      RECURSIVE RuleNext(_, _, _)
      \* the for loop from rule k on
      RuleLoop(rules, k, r) ==
        IF k > Len(rules) THEN r
        ELSE RuleNext(rules, k,
               IF IsSingle(rules[k]) THEN SingleLoop(rules[k], r.pairs, 1, <<>>, r.mem)
               ELSE MultipleLoop(rules[k], r.pairs, 1, <<>>, r.mem))
      \* if (results.length === 0) return results
      RuleNext(rules, k, r) == IF Len(r.pairs) = 0 THEN r ELSE RuleLoop(rules, k + 1, r)
      \* const results = [[{}, state.clone()]]
      FromClone(c) ==
        RuleLoop(makeIterator(parser), 1,
                 Returned(<<<<Len(c.mem) + 1, c.at>>>>, Append(c.mem, EmptyObj)))
  IN  FromClone(clone(mem, state))

\* doParse is about to be called, as parse and parseAll call it, on the outcome
\* of prepareState(url): that ParserState is the one object of the heap and
\* prevState refers to it
FrameInit ==
  /\ mode = "frame" /\ pc = "start"
  /\ d \in 1..Len(Descriptors)
  /\ url \in {u \in Urls(Descriptors[d]) : ~IsThrow(prepareState(u))}
  /\ opts \in {NoOptions, OnlyFirstMatch}
  /\ heap = <<prepareState(url)[2]>> /\ prevState = 1
  /\ results = <<>> /\ res = Nil /\ res2 = Nil /\ cands = <<>>
  /\ cursor = -1 /\ alone = <<>> /\ linear = <<>> /\ all = Nil /\ allIdx = <<>>
  /\ route = Nil /\ chunks = Nil /\ printed = Nil /\ filled = Nil
  /\ iter = Nil /\ idx = 0 /\ parents = <<>> /\ pi = 0 /\ bi = 0 /\ root = Nil
  /\ stack = <<>> /\ yielded = <<>> /\ rk = 0 /\ ri = 0 /\ output = <<>>
  /\ version = "" /\ made = <<>> /\ built = Nil
  /\ AdapterIdle

\* doParse(parser, prevState, opts), and once more with the same arguments:
\* results are the pairs of references returned, res and res2 what the pairs of
\* the first and of the second call refer to when the call returns, cands the
\* pairs of the first call
CallDoParse ==
  LET Deref(pairs, mem) == [i \in 1..Len(pairs) |-> <<mem[pairs[i][1]], mem[pairs[i][2]]>>]
      Return(r) ==
        /\ heap' = r.mem /\ results' = r.pairs
        /\ IF pc = "start"
           THEN res' = Deref(r.pairs, r.mem) /\ cands' = r.pairs /\ res2' = res2 /\ pc' = "called"
           ELSE res2' = Deref(r.pairs, r.mem) /\ UNCHANGED <<res, cands>> /\ pc' = "recalled"
  IN  /\ mode = "frame" /\ pc \in {"start", "called"}
      /\ Return(doParseRef(Descriptors[d].parser, prevState, opts, heap))
      /\ UNCHANGED <<mode, d, url, cursor, alone, linear, all, allIdx, route, chunks, printed,
                     filled, adapterVars, version, made, built, opts, prevState, iter, idx,
                     parents, pi, bi, root, stack, yielded, rk, ri, output>>

FrameSpec == FrameInit /\ [][CallDoParse]_vars

----------------------------------------------------------------------------
(* makeIterator on the trees of Merge nodes, one round of its loop per step *)

\* most rules in a tree given to makeIterator
MaxLeaves == 4

\* makeIterator(parser) has been called on a tree of Merge nodes over the rules
\* path('/a') and extra({ b: 1 }); equal rules are one object of the heap
IterInit ==
  LET RECURSIVE Trees(_)
      \* the trees of n rules, of every shape
      Trees(n) ==
        IF n = 1 THEN {Path(<<"a">>), Extra(Field("b", Num(1)))}
        ELSE UNION { {Merge(l, r) : l \in Trees(k), r \in Trees(n - k)} : k \in 1..(n - 1) }
  IN  /\ mode = "iterator" /\ pc = "iterate"
      /\ heap \in {<<t>> : t \in UNION {Trees(n) : n \in 1..MaxLeaves}}
      /\ root = heap[1] /\ stack = <<>> /\ yielded = <<>>
      /\ version = "part_006" /\ made = <<>> /\ built = Nil
      /\ opts = 0 /\ prevState = Nil /\ iter = Nil /\ idx = 0 /\ parents = <<>>
      /\ pi = 0 /\ bi = 0 /\ rk = 0 /\ ri = 0 /\ results = <<>> /\ output = <<>>
      /\ RouteIdle /\ AdapterIdle

\* the generator is run to its end
IterSpec == IterInit /\ [][IterStep]_vars /\ WF_vars(IterStep)
----------------------------------------------------------------------------
(* Properties *)

\* the number of path segments of the URL given to parse
SegmentCount == Len(prepareState(url)[2].segments)

\* the descriptor is a oneOf of the alternatives Descriptors[d].alts
ParsedOneOf == mode = "parse" /\ pc # "start" /\ ~IsThrow(res) /\ Len(alone) # 0

\* C1: every route that parse returns for a URL prints, and the print
\* parses back to the same route
C1_RoundTrip ==
  mode = "parse" =>
    /\ pc = "printed" => ~IsThrow(printed)
    /\ pc = "reparsed" => res2 = res

\* C2: parse returns a route only if the cursor of the returned candidate
\* is at the end of the segments, and null if no candidate got there
C2_FullConsumption ==
  (mode = "parse" /\ pc = "all" /\ ~IsThrow(res)) =>
    /\ res[2] # JSNull => cursor = SegmentCount
    /\ (\A k \in 1..Len(cands) : cands[k][2] # SegmentCount) => res[2] = JSNull

\* C3: if an alternative of a oneOf on its own matches the URL and consumes
\* every segment, parse returns the route of such an alternative, with the
\* cursor at the end
C3_FullAlternativeWins ==
  (ParsedOneOf /\ \E i \in 1..Len(alone) : alone[i][1] # JSNull /\ alone[i][2] = SegmentCount) =>
    /\ res[2] # JSNull
    /\ cursor = SegmentCount
    /\ \E j \in 1..Len(alone) : alone[j][2] = SegmentCount /\ alone[j][1] = res[2]

\* in the root bucket Home came first and matched the empty prefix only,
\* the alternative with the segment consumed the URL and was returned
C3_Witness ==
  /\ ParsedOneOf /\ d = 3 /\ SegmentCount = 1
  /\ alone[1][1] = JSNull /\ alone[2][1] = JSNull
  /\ alone[3] = <<Obj(Field("tag", Str("Home"))), 0>>
  /\ alone[4][2] = 1 /\ res[2] = alone[4][1] /\ cursor = 1

\* C4: parseAll returns candidates of doParse, partial ones included, in
\* strictly decreasing order of consumed segments, one for every count reached
C4_DecreasingCounts ==
  (mode = "parse" /\ pc = "all" /\ ~IsThrow(all)) =>
    /\ Len(allIdx) = Len(all[2][2])
    /\ \A i \in 1..Len(allIdx) : \E k \in 1..Len(cands) : cands[k] = <<all[2][2][i], allIdx[i]>>
    /\ \A i \in 1..(Len(allIdx) - 1) : allIdx[i] > allIdx[i + 1]
    /\ {allIdx[i] : i \in 1..Len(allIdx)} = {cands[k][2] : k \in 1..Len(cands)}

\* doParse found a shallow candidate before a deeper one and two candidates
\* of one count; parseAll returned several routes, the last a partial match
C4_Witness ==
  /\ mode = "parse" /\ pc = "all" /\ ~IsThrow(all)
  /\ Len(allIdx) >= 2 /\ allIdx[Len(allIdx)] < SegmentCount
  /\ \E j, k \in 1..Len(cands) : j < k /\ cands[j][2] < cands[k][2]
  /\ \E j, k \in 1..Len(cands) : j # k /\ cands[j][2] = cands[k][2]

\* C5: the taxonomy example: parseAll('/shop/item/42') is Item, Shop, Home
\* and parseAll of an unknown URL is the empty list
C5_TaxonomyExample ==
  (mode = "parse" /\ pc = "all" /\ d = 1) =>
    /\ url = "/shop/item/42" =>
         all = Ok(Arr(<< Obj(Field("tag", Str("Item")) @@ Field("id", Str("42"))),
                         Obj(Field("tag", Str("Shop"))), Obj(Field("tag", Str("Home"))) >>))
    /\ url \in {"/unknown", "/unknown-url"} => all = Ok(Arr(<<>>))

\* C6: print leaves out the query key of a field that is missing or equal to
\* its default, and parse of a URL without the key gives the default; the
\* fields are those of descriptor 7 with the query key and the route value
\* of the default each one declares
C6_DefaultSuppression ==
  LET DeclaredDefaults ==
        { [field |-> "page", key |-> "page", default |-> Num(1)],
          [field |-> "snake", key |-> "sn", default |-> Num(1)],
          [field |-> "next", key |-> "next", default |-> Num(2)] }
  IN
  /\ (d = 7 /\ pc = "printed" /\ ~IsThrow(chunks)) =>
       \A f \in DeclaredDefaults :
         (f.field \notin DOMAIN route[2] \/ route[2][f.field] = f.default)
           => ~HasKey(chunks[2].params, f.key)
  /\ (d = 7 /\ mode = "parse" /\ pc = "parsed" /\ ~IsThrow(res) /\ res[2] # JSNull) =>
       \A f \in DeclaredDefaults :
         f.key \notin DOMAIN prepareState(url)[2].params => res[2][2][f.field] = f.default

\* a URL with the key page only was parsed to a route with the defaults
\* under withName and dimap, and its print wrote the key page alone
C6_Witness ==
  /\ d = 7 /\ mode = "parse" /\ pc = "printed" /\ ~IsThrow(chunks)
  /\ DOMAIN prepareState(url)[2].params = {"page"}
  /\ res[2][2]["page"] = Num(3) /\ res[2][2]["snake"] = Num(1) /\ res[2][2]["next"] = Num(2)
  /\ route = res[2]
  /\ Keys(chunks[2].params) = <<"page">>

\* C7: oneOf throws at construction exactly if an argument has no tag rule
C7_ThrowsIffUntagged ==
  LET HasTagRule(rules) == \E i \in 1..Len(rules) : IsTagRule(rules[i])
  IN
  (mode = "oneOf" /\ pc = "constructed") =>
    (IsThrow(built) <=> \E i \in 1..Len(heap) : ~HasTagRule(Rules(version, heap[i])))

\* C8: parse and parseAll end in a value for every URL, never in an exception
C8_NoException ==
  mode = "parse" =>
    /\ res # Nil => ~IsThrow(res)
    /\ all # Nil => ~IsThrow(all)

\* C9: a builder returns a new descriptor and leaves the rules of the
\* receiver and of the argument as they were
C9_BuildersPure ==
  mode = "builder" =>
    /\ \A i \in 1..Len(made) : made[i] \notin {1, 2}
    /\ \A i, j \in 1..Len(made) : i # j => made[i] # made[j]
    /\ Rules(version, heap[1]) = Rules(version, BuilderBase(version))
    /\ Rules(version, heap[2]) = Rules(version, BuilderArg(version))

\* C10: an adapter made by withDefault gives a present value for an absent
\* key and for every present string
C10_DefaultTotal ==
  (mode = "adapter" /\ Adapters[adp].cls = "DefaultAdapter") =>
    /\ aoutOpt # Nil => isSome(aoutOpt)
    /\ aout # Nil => isSome(aout)

\* C11: a params field whose adapter carries the name n is printed under the
\* query key n and never under the field name, and is parsed from the query
\* key n whatever stands under the field name; the fields are those of
\* descriptor 12, where withName is outermost, under withDefault and under
\* dimap. shift is what the dimap of the field adds, absent the value of the
\* field when the key n is missing (Nil: the field is required)
C11_NamedKey ==
  LET NamedFields ==
        { [field |-> "a", key |-> "x", shift |-> 1, absent |-> Nil],
          [field |-> "b", key |-> "y", shift |-> 0, absent |-> Num(1)],
          [field |-> "c", key |-> "z", shift |-> 1, absent |-> Num(2)] }
      Digit == [s \in {"1", "2", "3", "4"} |->
                  CASE s = "1" -> 1 [] s = "2" -> 2 [] s = "3" -> 3 [] s = "4" -> 4]
      Query == prepareState(url)[2].params
  IN
  /\ (d = 12 /\ mode = "parse" /\ pc = "parsed" /\ ~IsThrow(res)) =>
       \A f \in NamedFields :
         /\ (res[2] # JSNull /\ f.key \in DOMAIN Query) =>
              res[2][2][f.field] = Num(Digit[Query[f.key]] + f.shift)
         /\ (res[2] # JSNull /\ f.key \notin DOMAIN Query) => res[2][2][f.field] = f.absent
         /\ (f.key \notin DOMAIN Query /\ f.absent = Nil) => res[2] = JSNull
  /\ (d = 12 /\ pc = "printed" /\ ~IsThrow(chunks)) =>
       \A f \in NamedFields :
         /\ ~HasKey(chunks[2].params, f.field)
         /\ HasKey(chunks[2].params, f.key) =>
              Lookup(chunks[2].params, f.key) = ToString(route[2][f.field][2] - f.shift)
         /\ (f.field \in DOMAIN route[2] /\ route[2][f.field] # f.absent) =>
              HasKey(chunks[2].params, f.key)

\* the query had x and z and, under the field names, a and b; the route was
\* read from x and z alone and printed under x and z
C11_Witness ==
  /\ d = 12 /\ mode = "parse" /\ pc = "printed" /\ ~IsThrow(chunks)
  /\ DOMAIN prepareState(url)[2].params = {"x", "a", "b", "z"}
  /\ prepareState(url)[2].params["x"] = "3"
  /\ res[2][2] = Field("a", Num(4)) @@ Field("b", Num(1)) @@ Field("c", Num(3))
  /\ route = res[2]
  /\ chunks[2].params = << <<"x", "3">>, <<"z", "2">> >>

\* C12: a query pair is split at its first '=': the key is the text before
\* it and the value all the text behind it, a pair without '=' has the empty
\* string as value, and that differs from the key being absent; read off the
\* string field a of descriptor 13, whose value is 'none' for an absent key
C12_SplitAtFirstEquals ==
  LET QueryText(parts) == IF Len(parts) >= 2 THEN parts[2] ELSE ""
      Pairs == SelectSeq(Split(QueryText(Split(url, "?")), "&"), NonEmpty)
      KeyOf(pair) ==
        IF IndexOf(pair, "=") = 0 THEN pair ELSE SubSeq(pair, 1, IndexOf(pair, "=") - 1)
      ValueOf(pair) ==
        IF IndexOf(pair, "=") = 0 THEN "" ELSE SubSeq(pair, IndexOf(pair, "=") + 1, Len(pair))
  IN
  (d = 13 /\ mode = "parse" /\ pc = "parsed" /\ ~IsThrow(res) /\ res[2] # JSNull) =>
    /\ \A i \in 1..Len(Pairs) :
         (KeyOf(Pairs[i]) = "a" /\ \A j \in (i + 1)..Len(Pairs) : KeyOf(Pairs[j]) # "a") =>
           res[2][2]["a"] = Str(ValueOf(Pairs[i]))
    /\ (\A i \in 1..Len(Pairs) : KeyOf(Pairs[i]) # "a") => res[2][2]["a"] = Str("none")

C14_ArrayLaw ==
  (mode = "law" /\ adp = 1) =>
    /\ pc = "back" => aback = some(aval)
    /\ (pc = "unapplied" /\ aval = Arr(<<Str("")>>)) =>
         astr # unapply(LawAdapters[1], Arr(<<>>))

\* C16: nat accepts a string exactly if the whole string is a decimal
\* numeral, that is one or more digits and nothing else
C16_NatWholeNumeral ==
  LET IsDigit(c) == c \in {"0", "1", "2", "3", "4", "5", "6", "7", "8", "9"}
      IsNumeral(str) == Len(str) > 0 /\ \A i \in 1..Len(str) : IsDigit(SubSeq(str, i, i))
  IN  (mode = "adapter" /\ adp = 1 /\ pc = "applied") => (isSome(aout) <=> IsNumeral(ain[2]))

\* C15: the boolean field flag of descriptor 13: an absent key and the
\* values '', 'false', '0', 'off' parse to false, every other value to true;
\* true is printed as the bare key and false is not printed
C15_BooleanParam ==
  LET Query == prepareState(url)[2].params
      Parsed(flag) ==
        IF "flag" \notin DOMAIN Query THEN flag = Bool(FALSE)
        ELSE IF Query["flag"] \in {"", "false", "0", "off"} THEN flag = Bool(FALSE)
        ELSE flag = Bool(TRUE)
  IN
  /\ (d = 13 /\ mode = "parse" /\ pc = "parsed" /\ ~IsThrow(res) /\ res[2] # JSNull) =>
       Parsed(res[2][2]["flag"])
  /\ (d = 13 /\ pc = "printed" /\ ~IsThrow(chunks)) =>
       /\ Get(route[2], "flag") = Bool(TRUE) =>
            (HasKey(chunks[2].params, "flag") /\ Lookup(chunks[2].params, "flag") = "")
       /\ Get(route[2], "flag") # Bool(TRUE) => ~HasKey(chunks[2].params, "flag")

\* the literal segments an alternative requires before its first dynamic
\* rule: those of its Path rules, in order, up to the first Segment, Embed
\* or OneOf rule
LiteralPrefix(rules) ==
  LET RECURSIVE From(_)
      From(i) ==
        IF i > Len(rules) \/ rules[i].cls \in {"Segment", "Embed", "OneOf"} THEN <<>>
        ELSE IF rules[i].cls = "Path" THEN rules[i].segments \o From(i + 1)
        ELSE From(i + 1)
  IN  From(1)

\* C18: every argument of oneOf is in exactly one bucket of the prefix trie,
\* the bucket of the node reached from the root along the literal prefix of
\* the argument
C18_TrieBuckets ==
  LET RECURSIVE Entries(_, _)
      \* <<path of the node, position in its bucket, parser>> for every bucket entry
      Entries(node, at) ==
        { <<at, k, node.bucket[k]>> : k \in 1..Len(node.bucket) }
          \cup UNION { Entries(node.kids[seg], Append(at, seg)) : seg \in DOMAIN node.kids }
      EntriesOf(arg, entries) ==
        { e \in entries : FirstTag(Rules(version, e[3])) = FirstTag(Rules(version, arg)) }
      \* the prefix trie of the OneOf that oneOf returned
      BuiltTrie(v) == IF v = "part_006" THEN built[2].prefixTrie ELSE built[2][1].prefixTrie
      InOneBucket(arg, entries) ==
        /\ Cardinality(EntriesOf(arg, entries)) = 1
        /\ \A e \in EntriesOf(arg, entries) : e[1] = LiteralPrefix(Rules(version, arg))
  IN
  (mode = "oneOf" /\ pc = "constructed" /\ version \in {"part_006", "part_008"}
     /\ ~IsThrow(built)) =>
    \A i \in 1..Len(heap) : InOneBucket(heap[i], Entries(BuiltTrie(version), <<>>))

\* C19: when alternatives of a oneOf consume the whole URL on their own,
\* parse returns one of those with the longest literal prefix, whatever the
\* order of declaration
C19_LongestPrefixWins ==
  LET PrefixLen(i) == Len(LiteralPrefix(makeIterator(Descriptors[d].alts[i])))
      Full(i) == alone[i][1] # JSNull /\ alone[i][2] = SegmentCount
  IN  (ParsedOneOf /\ \E i \in 1..Len(alone) : Full(i)) =>
        \E i \in 1..Len(alone) :
          /\ Full(i) /\ res[2] = alone[i][1]
          /\ \A j \in 1..Len(alone) : Full(j) => PrefixLen(j) <= PrefixLen(i)

\* C20: for a oneOf, the set of <<route, consumed>> pairs found through the
\* prefix trie in all-matches mode is the set found by trying every
\* alternative one after another
C20_TrieIsLinear ==
  (\/ mode = "parse" /\ pc \notin {"start", "parsed"} /\ Descriptors[d].parser.cls = "OneOf"
   \/ mode = "oneOf" /\ pc = "dispatched") =>
    {cands[i] : i \in 1..Len(cands)} = {linear[i] : i \in 1..Len(linear)}

\* C17: doParse on a oneOf returns, for parse and for parseAll, and the
\* descent of the OneOf case makes at most one iteration more than there are
\* segments left
C17_Terminates ==
  /\ <>(pc = "done")
  /\ [](Len(parents) <= Len(prevState.segments) + 1)

\* C17 as amended: doParse on a oneOf returns, for parse and for parseAll; the
\* descent of the OneOf case makes at most one iteration more than the trie
\* is deep, and at most one more than there are segments left when no node
\* of the trie has a child for the segment 'undefined'
C17_TerminatesWithinDepth ==
  LET RECURSIVE DepthAtLeast(_, _)
      \* the trie below node is at least n deep
      DepthAtLeast(node, n) ==
        n <= 0 \/ \E seg \in DOMAIN node.kids : DepthAtLeast(node.kids[seg], n - 1)
      RECURSIVE HasUndefined(_)
      HasUndefined(node) ==
        \/ "undefined" \in DOMAIN node.kids
        \/ \E seg \in DOMAIN node.kids : HasUndefined(node.kids[seg])
  IN  /\ <>(pc = "done")
      /\ [](Len(parents) = 0 \/ DepthAtLeast(parents[1], Len(parents) - 1))
      /\ [](Len(parents) = 0 \/ HasUndefined(parents[1])
              \/ Len(parents) <= Len(prevState.segments) + 1)

\* doParse has returned after a descent that made two iterations more than
\* there are segments
C17_Witness ==
  mode = "loop" /\ pc = "done" /\ Len(parents) = Len(prevState.segments) + 2

----------------------------------------------------------------------------
(* parseAll among candidates of one count, cursors, embed, agreement *)

\* C21: of the candidates of doParse that consumed the same number of
\* segments parseAll returns exactly one, the one doParse yielded first
C21_FirstOfEqualCount ==
  (mode = "parse" /\ pc = "all" /\ ~IsThrow(all)) =>
    /\ \A i, j \in 1..Len(allIdx) : i # j => allIdx[i] # allIdx[j]
    /\ \A i \in 1..Len(allIdx) :
         \E k \in 1..Len(cands) :
           /\ cands[k] = <<all[2][2][i], allIdx[i]>>
           /\ \A j \in 1..(k - 1) : cands[j][2] # allIdx[i]

\* doParse yielded two different routes of one count, after a candidate of a
\* smaller count; parseAll returned the earlier of the two and not the later
C21_Witness ==
  /\ mode = "parse" /\ pc = "all" /\ ~IsThrow(all)
  /\ \E j, k \in 1..Len(cands) :
       /\ j < k /\ cands[j][2] = cands[k][2] /\ cands[j][1] # cands[k][1]
       /\ \A h \in 1..(j - 1) : cands[h][2] # cands[j][2]
       /\ \E i \in 1..Len(allIdx) : all[2][2][i] = cands[j][1]
       /\ \A i \in 1..Len(allIdx) : all[2][2][i] # cands[k][1]
       /\ \E h \in 1..Len(cands) : cands[h][2] # cands[j][2]

\* C27: a route parse returns is the first route of parseAll, and parse
\* returns a route when the first route of parseAll consumed every segment
C27_ParseAgreesWithParseAll ==
  (mode = "parse" /\ pc = "all" /\ ~IsThrow(all) /\ ~IsThrow(res)) =>
    /\ res[2] # JSNull => (Len(all[2][2]) > 0 /\ all[2][2][1] = res[2])
    /\ (Len(allIdx) > 0 /\ allIdx[1] = SegmentCount) => res[2] # JSNull

C25_Embed ==
  LET RECURSIVE Fold(_)
      \* the rules of a sequence as one descriptor
      Fold(rules) ==
        IF Len(rules) = 0 THEN Path(<<>>)
        ELSE IF Len(rules) = 1 THEN rules[1]
        ELSE Merge(Fold(SubSeq(rules, 1, Len(rules) - 1)), rules[Len(rules)])
      Range(f) == {f[i] : i \in DOMAIN f}
      \* the rule sequences of the descriptor: its own, or those of its alternatives
      Sequences(parser) ==
        IF parser.cls = "OneOf"
        THEN {makeIterator(parser.tags[i][2]) : i \in 1..Len(parser.tags)}
        ELSE {makeIterator(parser)}
      \* w is candidate b with the result q of the embedded descriptor under key
      Stored(w, b, q, key) ==
        /\ w[2] = q[2]
        /\ DOMAIN w[1] = DOMAIN b[1] \cup {key}
        /\ w[1][key] = Obj(q[1])
        /\ \A f \in DOMAIN b[1] : w[1][f] = b[1][f]
      OnParse(e, before, with, full, post) ==
        /\ \A w \in Range(with) : \E b \in Range(before) :
             \E q \in Range(doParse(e.parser, b[2], NoOptions)) : Stored(w, b, q, e.key)
        /\ \A b \in Range(before) : \A q \in Range(doParse(e.parser, b[2], NoOptions)) :
             \E w \in Range(with) : Stored(w, b, q, e.key)
        /\ \A f \in Range(full) : \E w \in Range(with) :
             \E r \in Range(doParse(post, w[2], NoOptions)) :
               f[2] = r[2] /\ f[1][e.key] = w[1][e.key]
        /\ \A w \in Range(with) : \A r \in Range(doParse(post, w[2], NoOptions)) :
             \E f \in Range(full) : f[2] = r[2] /\ f[1][e.key] = w[1][e.key]
      IdxPairs(pairs) == [i \in 1..Len(pairs) |-> <<Obj(pairs[i][1]), pairs[i][2].idx>>]
      Parsed(rules, k, st) ==
        /\ Descriptors[d].parser.cls # "OneOf"
             => cands = IdxPairs(doParse(Fold(rules), st, NoOptions))
        /\ OnParse(rules[k], doParse(Fold(SubSeq(rules, 1, k - 1)), st, NoOptions),
                   doParse(Fold(SubSeq(rules, 1, k)), st, NoOptions),
                   doParse(Fold(rules), st, NoOptions),
                   Fold(SubSeq(rules, k + 1, Len(rules))))
      OnPrint(e, pre, inner, post) ==
        /\ ~IsThrow(pre) /\ ~IsThrow(inner) /\ ~IsThrow(post)
        /\ chunks[2].segments = pre[2].segments \o inner[2].segments \o post[2].segments
        /\ Range(Keys(chunks[2].params))
             = Range(Keys(pre[2].params)) \cup Range(Keys(inner[2].params))
                 \cup Range(Keys(post[2].params))
        /\ \A key \in Range(Keys(inner[2].params)) \ Range(Keys(post[2].params)) :
             Lookup(chunks[2].params, key) = Lookup(inner[2].params, key)
      Printed(rules, k) ==
        OnPrint(rules[k], doPrint(Fold(SubSeq(rules, 1, k - 1)), route),
                doPrint(rules[k].parser, Get(route[2], rules[k].key)),
                doPrint(Fold(SubSeq(rules, k + 1, Len(rules))), route))
      \* the rules print goes through for the route
      Selected(parser) ==
        IF parser.cls = "OneOf"
        THEN makeIterator(Lookup(parser.tags, JSString(Get(route[2], "tag"))))
        ELSE makeIterator(parser)
  IN  /\ (mode = "parse" /\ pc \in {"all", "printed"} /\ ~IsThrow(all)) =>
           \A rules \in Sequences(Descriptors[d].parser) : \A k \in 1..Len(rules) :
             rules[k].cls = "Embed" => Parsed(rules, k, prepareState(url)[2])
      /\ (mode \in {"parse", "print"} /\ pc = "printed" /\ ~IsThrow(chunks)) =>
           \A k \in 1..Len(Selected(Descriptors[d].parser)) :
             Selected(Descriptors[d].parser)[k].cls = "Embed"
               => Printed(Selected(Descriptors[d].parser), k)

\* parse returned a route of all the segments in which an embedded result of
\* two fields stands under its key beside a field of an earlier rule, a Path
\* rule with a literal follows the Embed rule, and print of the route gave the
\* segments and a query pair
C25_Witness ==
  LET Declared == makeIterator(Descriptors[d].parser)
  IN  /\ mode = "parse" /\ pc = "printed" /\ ~IsThrow(all) /\ ~IsThrow(chunks)
      /\ res[2] # JSNull /\ cursor = SegmentCount /\ cursor = 3
      /\ \E k \in 2..(Len(Declared) - 1) :
           /\ Declared[k].cls = "Embed"
           /\ Declared[k + 1].cls = "Path" /\ Len(Declared[k + 1].segments) > 0
           /\ Declared[k].key \in DOMAIN res[2][2]
           /\ res[2][2][Declared[k].key][1] = "obj"
           /\ Cardinality(DOMAIN res[2][2][Declared[k].key][2]) = 2
           /\ DOMAIN res[2][2] \cap DOMAIN res[2][2][Declared[k].key][2] = {}
           /\ Cardinality(DOMAIN res[2][2]) = 2
      /\ Len(chunks[2].segments) = 3 /\ Len(chunks[2].params) = 1

\* C23: print of a descriptor with a Custom rule completes, and the rule
\* contributes the segments of the pair its print function returns, at its
\* position, and the query pairs of that pair
C23_CustomPrint ==
  LET RECURSIVE Fold(_)
      Fold(rules) ==
        IF Len(rules) = 0 THEN Path(<<>>)
        ELSE IF Len(rules) = 1 THEN rules[1]
        ELSE Merge(Fold(SubSeq(rules, 1, Len(rules) - 1)), rules[Len(rules)])
      Range(f) == {f[i] : i \in DOMAIN f}
      Contributes(pre, pair, post) ==
        /\ ~IsThrow(chunks) /\ ~IsThrow(printed)
        /\ chunks[2].segments = pre[2].segments \o pair[2].segments \o post[2].segments
        /\ \A q \in Range(pair[2].params) :
             q[1] \in Range(Keys(post[2].params)) \/ q \in Range(chunks[2].params)
      Printed(rules, k) ==
        ~IsThrow(CustomFn(rules[k].print, route)) =>
          Contributes(doPrint(Fold(SubSeq(rules, 1, k - 1)), route),
                      CustomFn(rules[k].print, route),
                      doPrint(Fold(SubSeq(rules, k + 1, Len(rules))), route))
  IN  (mode \in {"parse", "print"} /\ pc = "printed") =>
        \A k \in 1..Len(makeIterator(Descriptors[d].parser)) :
          makeIterator(Descriptors[d].parser)[k].cls = "Custom"
            => Printed(makeIterator(Descriptors[d].parser), k)

\* C28: every route parse and parseAll return through a oneOf has a tag that
\* is a key of the tags of that oneOf, and print of a route parse returned
\* does not fail for want of an alternative
C28_TagOfTable ==
  LET Tagged(r, oneOfRule) ==
        /\ r[1] = "obj" /\ "tag" \in DOMAIN r[2]
        /\ HasKey(oneOfRule.tags, JSString(r[2]["tag"]))
      Holds(rules) ==
        \A k \in 1..Len(rules) :
          rules[k].cls = "OneOf" =>
            /\ pc = "all" =>
                 /\ \A i \in 1..Len(all[2][2]) : Tagged(all[2][2][i], rules[k])
                 /\ res[2] # JSNull => Tagged(res[2], rules[k])
            /\ pc = "printed" => chunks # Throw("Error")
  IN  (mode = "parse" /\ pc \in {"all", "printed"} /\ ~IsThrow(all) /\ ~IsThrow(res))
        => Holds(makeIterator(Descriptors[d].parser))

\* C29: for a descriptor without Custom rules toOutput of a print input equals
\* parse of its print
C29_ToOutputIsParsePrint ==
  LET RECURSIVE HasCustom(_)
      HasCustom(p) ==
        \E i \in 1..Len(makeIterator(p)) :
          LET r == makeIterator(p)[i]
          IN  CASE r.cls = "Custom" -> TRUE
                [] r.cls = "Embed" -> HasCustom(r.parser)
                [] r.cls = "OneOf" -> \E k \in 1..Len(r.tags) : HasCustom(r.tags[k][2])
                [] OTHER -> FALSE
  IN  (mode = "print" /\ pc = "completed" /\ ~HasCustom(Descriptors[d].parser))
        => filled = res2

\* C24: print emits the segments of the rules of a descriptor in the order
\* the rules were declared, those of the alternative of a oneOf included
C24_DeclarationOrder ==
  LET RECURSIVE Concat(_, _, _)
      \* the segments of every rule printed on its own, in the order of the rules
      Concat(rules, r, v) ==
        IF Len(rules) = 0 THEN <<>>
        ELSE (IF v = "part_006" THEN doPrint(rules[1], r)[2].segments
              ELSE RulesDoPrint(<<rules[1]>>, r)[2].segments)
             \o Concat(Tail(rules), r, v)
      \* the rules print goes through for the route, as declared
      Selected(parser) ==
        IF parser.cls = "OneOf"
        THEN makeIterator(Descriptors[d].alts[
               CHOOSE i \in 1..Len(Descriptors[d].alts) :
                 /\ FirstTag(makeIterator(Descriptors[d].alts[i])) = route[2]["tag"]
                 /\ \A j \in (i + 1)..Len(Descriptors[d].alts) :
                      FirstTag(makeIterator(Descriptors[d].alts[j])) # route[2]["tag"]])
        ELSE makeIterator(parser)
      \* the argument of oneOf with the tag of the route, the last one given
      Declared ==
        Rules(version, heap[CHOOSE i \in 1..Len(heap) :
                              /\ FirstTag(Rules(version, heap[i])) = route[2]["tag"]
                              /\ \A j \in (i + 1)..Len(heap) :
                                   FirstTag(Rules(version, heap[j])) # route[2]["tag"]])
  IN  /\ (mode \in {"parse", "print"} /\ pc = "printed" /\ ~IsThrow(chunks)) =>
           chunks[2].segments = Concat(Selected(Descriptors[d].parser), route, "part_006")
      /\ (mode = "oneOf" /\ pc = "emitted" /\ ~IsThrow(chunks)) =>
           chunks[2].segments = Concat(Declared, route, version)

\* C30: makeIterator yields the rules of a tree of Merge nodes from left to
\* right, each position once and no Merge node, and ends with an empty stack
C30_YieldsLeaves ==
  LET RECURSIVE Leaves(_)
      \* traverseParsers: the first side, then the second, a rule as it is
      Leaves(p) == IF p.cls = "Merge" THEN Leaves(p.first) \o Leaves(p.second) ELSE <<p>>
      Prefix(xs, ys) == Len(xs) <= Len(ys) /\ xs = SubSeq(ys, 1, Len(xs))
  IN  /\ [](mode = "iterator" =>
             /\ \A i \in 1..Len(yielded) : yielded[i].cls # "Merge"
             /\ Prefix(yielded, Leaves(heap[1]))
             /\ pc = "returned" => (yielded = Leaves(heap[1]) /\ stack = <<>>))
      /\ <>(pc = "returned")

\* the generator has ended on a tree of four rules with a Merge node on both
\* sides of its root, in which each rule stands in two positions
C30_Witness ==
  /\ mode = "iterator" /\ pc = "returned"
  /\ heap[1].cls = "Merge" /\ heap[1].first.cls = "Merge" /\ heap[1].second.cls = "Merge"
  /\ heap[1].first = heap[1].second /\ heap[1].first.first # heap[1].first.second
  /\ Len(yielded) = 4 /\ yielded[1] = yielded[3] /\ yielded[2] = yielded[4]

====
